---- MODULE Spec2Model ----
(***************************************************************************)
(* Enclave lifecycle state machine of asylo/platform/core/                 *)
(* trusted_application.cc: the entry handlers Initialize, Run, Finalize    *)
(* and DeliverSignal, the extern "C" entry points behind them, and the     *)
(* fork entry points __asylo_take_snapshot, __asylo_restore and            *)
(* __asylo_transfer_secure_snapshot_key, called by several host threads.   *)
(* A thread takes one step per access to shared data (the lifecycle state  *)
(* under mutex_, the global enclave config) and per call of user logic;    *)
(* thread-local work is part of the step it precedes or follows.           *)
(*                                                                         *)
(* The untrusted side, asylo/platform/arch/sgx/untrusted/ocalls.cc, has    *)
(* two further specifications over variables of their own: SpecFork, the   *)
(* fork ocall in the parent and the child process, and SpecSignal, the     *)
(* registration of host signal handlers and the arrival of host signals.   *)
(***************************************************************************)
EXTENDS Integers, FiniteSets, Sequences, TLC

(* Number of host threads entering the enclave concurrently. *)
NumThreads == 2

Threads == 1..NumThreads

(* TrustedApplication::State, in declaration order; the code compares      *)
(* states with < and >, so they are numbers.                               *)
kUninitialized == 0
kInternalInitializing == 1
kUserInitializing == 2
kRunning == 3
kFinalizing == 4
kFinalized == 5

EnclaveStates == kUninitialized..kFinalized

(* error::GoogleError::INVALID_ARGUMENT, the code of the PrimitiveStatus   *)
(* a handler returns for a bad message or an untrusted extent.             *)
kInvalidArgument == 3

(* Return values of __asylo_handle_signal. *)
kSignalOk == 0
kSignalFailed == 1
kSignalWrongState == 2
kSignalBlocked == -1

Ops == {"none", "init", "run", "fini", "signal", "snapshot", "restore", "transfer"}

(* Outcomes of a call into user-supplied logic (or another collaborator    *)
(* that returns a Status): it returns OK, returns an error, or throws.     *)
UserOutcomes == {"OK", "ERROR", "THROW"}

(* The enable_fork field of an EnclaveConfig: set and true, or not.        *)
ForkSettings == {"on", "off"}

(* Bridge signal numbers carried by an EnclaveSignal message.  The table   *)
(* of asylo/platform/common/bridge_functions.cc is not part of these       *)
(* sources; two translated numbers and one unknown number stand for it.    *)
BridgeSignums == {1, 7, 99}

BridgeSignalTable == [b \in {1, 7} |-> IF b = 1 THEN 1 ELSE 10]

FromBridgeSignal(b) ==
    IF b \in DOMAIN BridgeSignalTable THEN BridgeSignalTable[b] ELSE -1

EnclaveSignums == {BridgeSignalTable[b] : b \in DOMAIN BridgeSignalTable}

VARIABLES
    enclave_state,  \* TrustedApplication::enclave_state_
    mutex,          \* holder of TrustedApplication::mutex_, 0 when free
    enable_fork,    \* global enclave config: "unset", "on" or "off"
    aborted,        \* BestEffortAbort has ended the process
    fini_calls,     \* times the user Finalize logic has been invoked
    last_write,     \* the last write of enclave_state: by, at, from, to
    op,             \* per thread: the entry point it is in
    pc,             \* per thread: its position in that entry point
    lk,             \* per thread: position inside VerifyAndSetState
    seen,           \* per thread: the state the state check of its entry
                    \* point read or compared
    user,           \* per thread: outcome of the user logic it invoked
    masked,         \* per thread: the delivered signal was in the mask
    ret,            \* per thread: int result / PrimitiveStatus code
    status,         \* per thread: the Status serialized to the output
    post            \* per thread: enclave_state as its call left it, for a
                    \* call that returned from a compare or a write of it

globals == <<enclave_state, mutex, enable_fork, aborted, fini_calls, last_write>>
locals == <<op, pc, lk, seen, user, masked, ret, status, post>>
vars == <<globals, locals>>

(* The value of seen and post of a call that has not read the state: no *)
(* state.                                                                *)
NoState == kUninitialized - 1

(* ---------------------------------------------------------------------- *)
(* State of the untrusted side: the fork ocall and the signal handlers of  *)
(* asylo/platform/arch/sgx/untrusted/ocalls.cc.                            *)

(* Largest number of entries EnterAndTakeSnapshot returns in one category  *)
(* of the SnapshotLayout.                                                  *)
MaxEntries == 1

(* The process that calls the fork ocall and the one the OS fork creates.  *)
Procs == {"parent", "child"}

(* The repeated fields of SnapshotLayout the fork ocall builds deleters    *)
(* for, and the two buffers of one entry.                                  *)
Categories == {"data", "bss", "heap", "thread", "stack"}
BufferKinds == {"ciphertext_base", "nonce_base"}
Buffers == Categories \X (1..MaxEntries) \X BufferKinds

(* socket_pair[0], socket_pair[1], pipefd[0] (read end), pipefd[1].        *)
FdNames == {"socket_pair0", "socket_pair1", "pipefd0", "pipefd1"}

(* Values of errno: "0" is the value the caller entered with, "OS" any     *)
(* non-zero error a failed system call stored.                             *)
Errnos == {"0", "EFAULT", "ENOMEM", "EAGAIN", "OS"}

(* The strings the child writes to the pipe.                               *)
kChildSucceeded == "Child fork succeeded"
kChildTransferFailed == "Child DoSnapshotKeyTransfer failed"
kChildRestoreFailed == "Child EnterAndRestore failed"

VARIABLES
    restore_snapshot, \* the argument of the fork ocall
    snapshot_layout,  \* entries per category EnterAndTakeSnapshot returned
    deleters,         \* the five SnapshotDataDeleter vectors are built
    fpc,              \* per process: position in the fork ocall
    pid,              \* per process: the value fork() returned to it
    fret,             \* per process: value the ocall returned
    ferrno,           \* per process: errno
    fds,              \* per process: "none", "open" or "closed" per fd
    closes,           \* per process: close() calls made on each fd
    freed,            \* per process: times each buffer was freed
    pipe,             \* strings written to the pipe and not yet read
    pipe_writes,      \* number of successful writes to the pipe
    steps,            \* per process: the steps of the ocall it performed
    outcome,          \* per process: result of each step that can fail
    child_result,     \* child: the string it is about to write
    loaded,           \* child: base address and size equal the parent's
    wait_result,      \* parent: "error", "timeout" or "ready" from select
    rc,               \* parent: "error", "eof" or "data" from read
    buf,              \* parent: the string read from the pipe
    exited,           \* the child process has terminated
    os_forks          \* number of calls of fork()

fork_vars == <<restore_snapshot, snapshot_layout, deleters, fpc, pid, fret, ferrno,
               fds, closes, freed, pipe, pipe_writes, steps, outcome,
               child_result, loaded, wait_result, rc, buf, exited, os_forks>>

(* The value of the variables of the fork ocall in a specification that   *)
(* does not call it.                                                       *)
ForkIdle ==
    /\ restore_snapshot = FALSE
    /\ snapshot_layout = "idle"
    /\ deleters = FALSE
    /\ fpc = "idle"
    /\ pid = "idle"
    /\ fret = "idle"
    /\ ferrno = "idle"
    /\ fds = "idle"
    /\ closes = "idle"
    /\ freed = "idle"
    /\ pipe = <<>>
    /\ pipe_writes = 0
    /\ steps = "idle"
    /\ outcome = "idle"
    /\ child_result = "none"
    /\ loaded = "idle"
    /\ wait_result = "none"
    /\ rc = "none"
    /\ buf = "none"
    /\ exited = FALSE
    /\ os_forks = 0

(* Hosts of signal handlers: the enclaves loaded in the process.           *)
EnclaveNames == {"enclave_a", "enclave_b"}

VARIABLES
    signal_to_client,  \* EnclaveSignalDispatcher: signum -> enclave or "none"
    handle_signal_inside_enclave, \* the static function pointer
    sa_sigaction,      \* per host signum: the function sigaction installed
    tcs_active,        \* per enclave: a thread is inside the enclave
    last_reg,          \* the call of the registration ocall, when the
                       \* last step was one
    reg_ok,            \* per signum: enclave of the latest registration
                       \* that returned 0 and is still in force
    reg_failed,        \* signums a registration of which returned -1
    arrival            \* what the arrival of a host signal did, when the
                       \* last step was one

signal_vars == <<signal_to_client, handle_signal_inside_enclave, sa_sigaction,
                 tcs_active, last_reg, reg_ok, reg_failed, arrival>>

(* ---------------------------------------------------------------------- *)
(* State of the call dispatch: the entry handlers asylo_enclave_init       *)
(* registers, and one non-syscall host call of                             *)
(* asylo/platform/host_call/trusted/host_calls.cc on its way through       *)
(* ocall_dispatch_untrusted_call and back.                                 *)

VARIABLES
    entry_table,   \* selectors that have an entry handler
    startup,       \* asylo_enclave_init: registrations done, or its end
    entry_call,    \* what the dispatch of an entry selector did, when the
                   \* last step was one
    hc_call,       \* the host call in progress, "none" when there is none
    hc_pc,         \* its position
    hc_selector,   \* the selector it dispatches
    hc_size,       \* the size argument of realloc
    handler_out,   \* what the exit handler did: invoked, code, message
    sgx_params,    \* SgxParams::output and output_size handed back
    hc_status,     \* the int ocall_dispatch_untrusted_call returned
    hc_reads,      \* reads the host call made of the output message
    hc_host,       \* result and errno of the host operation
    errno,         \* errno of the enclave thread
    errno_before,  \* errno when the host call was entered
    errno_writes,  \* writes of errno the host call made
    hc_ret         \* the value the host call returned

call_vars == <<entry_table, startup, entry_call, hc_call, hc_pc, hc_selector,
               hc_size, handler_out, sgx_params, hc_status, hc_reads, hc_host,
               errno, errno_before, errno_writes, hc_ret>>

(* The value of the variables of the call dispatch in a specification     *)
(* that dispatches nothing.                                                *)
CallIdle ==
    /\ entry_table = {}
    /\ startup = "idle"
    /\ entry_call = "idle"
    /\ hc_call = "none"
    /\ hc_pc = "idle"
    /\ hc_selector = "none"
    /\ hc_size = 0
    /\ handler_out = "idle"
    /\ sgx_params = "idle"
    /\ hc_status = "none"
    /\ hc_reads = 0
    /\ hc_host = "idle"
    /\ errno = "idle"
    /\ errno_before = "idle"
    /\ errno_writes = 0
    /\ hc_ret = "none"

(* ---------------------------------------------------------------------- *)
(* State of the ECDSA key tests of asylo/crypto/ecdsa_signing_key_test.h:  *)
(* the operation a test applied with its inputs, and what came back.       *)

VARIABLES
    key_in,        \* the operation and its inputs
    key_out        \* its results

key_vars == <<key_in, key_out>>

(* The value of the variables of the key tests in a specification that    *)
(* runs none.                                                              *)
KeyIdle ==
    /\ key_in = "idle"
    /\ key_out = "idle"

(* ---------------------------------------------------------------------- *)
(* State of a SocketTransmit object of                                     *)
(* asylo/platform/posix/sockets/socket_transmit.cc and of the call of      *)
(* Read or Write in progress on it.                                        *)

VARIABLES
    tx             \* the object's counters, the call's locals, errno

transmit_vars == <<tx>>

(* The value of tx in a specification that transmits nothing.              *)
TransmitIdle == tx = "idle"

(* ---------------------------------------------------------------------- *)
(* State of the tests of asylo/platform/common/bridge_functions_test.cc:   *)
(* the translation a test applied with its argument, and what came back.   *)

VARIABLES
    bridge         \* the translation applied, its argument, its result

bridge_vars == <<bridge>>

(* The value of bridge in a specification that translates nothing.         *)
BridgeIdle == bridge = "idle"

others == <<fork_vars, signal_vars, call_vars, key_vars, transmit_vars, bridge_vars>>

(* last_reg when the last step was not a registration. *)
NoRegistration ==
    [bridge_signum |-> 0, name |-> "none", old_client |-> "none",
     warned |-> FALSE, result |-> 0,
     before |-> [s \in EnclaveSignums |-> "none"],
     kind |-> "none", completed |-> TRUE, sa_siginfo |-> FALSE]

(* arrival when the last step was not the arrival of a signal. *)
NoArrival ==
    [signum |-> 0, handler |-> "SIG_DFL", client |-> "none",
     invoked |-> "nullptr", bridge_signum |-> 0, direct |-> 0, entries |-> 0,
     entered |-> "none", registered |-> "none", clean |-> TRUE]

(* The value of the variables of the signal handlers in a specification   *)
(* that registers none.                                                    *)
SignalIdle ==
    /\ signal_to_client = "idle"
    /\ handle_signal_inside_enclave = "nullptr"
    /\ sa_sigaction = "idle"
    /\ tcs_active = "idle"
    /\ last_reg = "idle"
    /\ reg_ok = "idle"
    /\ reg_failed = {}
    /\ arrival = "idle"

(* No signal has been registered and none has arrived. *)
SignalStart ==
    /\ signal_to_client = [s \in EnclaveSignums |-> "none"]
    /\ handle_signal_inside_enclave = "nullptr"
    /\ sa_sigaction = [s \in EnclaveSignums |-> "SIG_DFL"]
    /\ tcs_active = [e \in EnclaveNames |-> FALSE]
    /\ last_reg = NoRegistration
    /\ reg_ok = [s \in EnclaveSignums |-> "none"]
    /\ reg_failed = {}
    /\ arrival = NoArrival

LifecycleIdle ==
    /\ enclave_state = kUninitialized
    /\ mutex = 0
    /\ enable_fork = "unset"
    /\ aborted = FALSE
    /\ fini_calls = 0
    /\ last_write = [by |-> "none", at |-> "none",
                     from |-> kUninitialized, to |-> kUninitialized]
    /\ op = [t \in Threads |-> "none"]
    /\ pc = [t \in Threads |-> "idle"]
    /\ lk = [t \in Threads |-> "out"]
    /\ seen = [t \in Threads |-> NoState]
    /\ user = [t \in Threads |-> "none"]
    /\ masked = [t \in Threads |-> FALSE]
    /\ ret = [t \in Threads |-> 0]
    /\ status = [t \in Threads |-> "none"]
    /\ post = [t \in Threads |-> NoState]

Init ==
    /\ LifecycleIdle
    /\ ForkIdle
    /\ SignalIdle
    /\ CallIdle
    /\ KeyIdle
    /\ TransmitIdle
    /\ BridgeIdle

(* ---------------------------------------------------------------------- *)
(* The mutex and the three accessors of enclave_state_.                    *)

MutexFreeNoLock == TRUE

(* absl::MutexLock lock(&mutex_) can be taken. *)
MutexFree == mutex = 0

VassSites == {"init_vass", "internal_vass", "fini_vass"}

(* The expected_state argument at each call site of VerifyAndSetState. *)
VassExpected(site) ==
    CASE site = "init_vass" -> kUninitialized
      [] site = "internal_vass" -> kInternalInitializing
      [] site = "fini_vass" -> kRunning

VassNewSkipping(site) ==
    CASE site = "init_vass" -> kInternalInitializing
      [] site = "internal_vass" -> kRunning
      [] site = "fini_vass" -> kFinalizing

VassNewFiniStays(site) ==
    CASE site = "init_vass" -> kInternalInitializing
      [] site = "internal_vass" -> kUserInitializing
      [] site = "fini_vass" -> kRunning

(* The new_state argument at each call site of VerifyAndSetState. *)
VassNew(site) ==
    CASE site = "init_vass" -> kInternalInitializing
      [] site = "internal_vass" -> kUserInitializing
      [] site = "fini_vass" -> kFinalizing

VassRefusesBelow(current, expected) == current < expected

VassRefusesNever(current, expected) == FALSE

(* VerifyAndSetState: enclave_state_ != expected_state. *)
VassRefuses(current, expected) == current # expected

(* Where the caller continues when VerifyAndSetState returned OK. *)
VassNext(site) ==
    CASE site = "init_vass" -> "init_internal"
      [] site = "internal_vass" -> "init_user"
      [] site = "fini_vass" -> "fini_user"

Written(t, to) == [by |-> op[t], at |-> pc[t], from |-> enclave_state, to |-> to]

(* A call returns: int result r, serialized Status s, the state then st. *)
Finish(t, r, s, st) ==
    /\ pc' = [pc EXCEPT ![t] = "done"]
    /\ ret' = [ret EXCEPT ![t] = r]
    /\ status' = [status EXCEPT ![t] = s]
    /\ post' = [post EXCEPT ![t] = st]

OnThrowLeaky(o) == IF o = "signal" THEN "propagate" ELSE "abort"

(* What each entry handler does with an exception of the user logic:      *)
(* catch (...) { BestEffortAbort(...) } in all four.                       *)
OnThrow(o) == "abort"

(* TrustedPrimitives::BestEffortAbort: the process ends, nothing returns. *)
BestEffortAbort(t) ==
    /\ aborted' = TRUE
    /\ pc' = [pc EXCEPT ![t] = "aborted"]

(* The user logic called by thread t threw. *)
Thrown(t) ==
    /\ IF OnThrow(op[t]) = "abort"
         THEN BestEffortAbort(t)
         ELSE /\ pc' = [pc EXCEPT ![t] = "escaped"]
              /\ UNCHANGED aborted
    /\ UNCHANGED <<ret, status, post>>

(* VerifyAndSetState: absl::MutexLock lock(&mutex_). *)
VASS_Lock(t) ==
    /\ ~aborted
    /\ pc[t] \in VassSites
    /\ lk[t] = "out"
    /\ MutexFree
    /\ mutex' = t
    /\ lk' = [lk EXCEPT ![t] = "held"]
    /\ UNCHANGED <<enclave_state, enable_fork, aborted, fini_calls, last_write>>
    /\ UNCHANGED <<op, pc, seen, user, masked, ret, status, post>>
    /\ UNCHANGED others

(* VerifyAndSetState: if (enclave_state_ != expected_state) return error. *)
VASS_Compare(t) ==
    /\ ~aborted
    /\ pc[t] \in VassSites
    /\ lk[t] = "held"
    /\ seen' = IF pc[t] = "internal_vass" THEN seen
                ELSE [seen EXCEPT ![t] = enclave_state]
    /\ IF VassRefuses(enclave_state, VassExpected(pc[t]))
         THEN /\ mutex' = 0
              /\ lk' = [lk EXCEPT ![t] = "out"]
              /\ IF pc[t] = "internal_vass"
                   THEN /\ pc' = [pc EXCEPT ![t] = "init_unwind"]
                        /\ status' = [status EXCEPT ![t] = "FAILED_PRECONDITION"]
                        /\ UNCHANGED <<ret, post>>
                   ELSE Finish(t, 0, "FAILED_PRECONDITION", enclave_state)
         ELSE /\ lk' = [lk EXCEPT ![t] = "ok"]
              /\ UNCHANGED <<mutex, pc, ret, status, post>>
    /\ UNCHANGED <<enclave_state, enable_fork, aborted, fini_calls, last_write>>
    /\ UNCHANGED <<op, user, masked>>
    /\ UNCHANGED others

(* VerifyAndSetState: enclave_state_ = new_state; return OK (unlocks). *)
VASS_Set(t) ==
    /\ ~aborted
    /\ pc[t] \in VassSites
    /\ lk[t] = "ok"
    /\ enclave_state' = VassNew(pc[t])
    /\ last_write' = Written(t, VassNew(pc[t]))
    /\ mutex' = 0
    /\ lk' = [lk EXCEPT ![t] = "out"]
    /\ pc' = [pc EXCEPT ![t] = VassNext(pc[t])]
    /\ UNCHANGED <<enable_fork, aborted, fini_calls>>
    /\ UNCHANGED <<op, seen, user, masked, ret, status, post>>
    /\ UNCHANGED others

(* TrustedApplication::SetState under the mutex. *)
SetState(t, s) ==
    /\ MutexFree
    /\ enclave_state' = s
    /\ last_write' = Written(t, s)
    /\ UNCHANGED mutex

(* TrustedApplication::GetState under the mutex: thread t reads the state. *)
GetState(t) ==
    /\ MutexFree
    /\ seen' = [seen EXCEPT ![t] = enclave_state]

(* ---------------------------------------------------------------------- *)
(* Initialize handler and __asylo_user_init.                               *)

(* The Initialize handler up to the state check, on a message that has    *)
(* its two extents or not (nargsOk), whose input and name extents lie in   *)
(* trusted memory or not, and whose config parses or not: the reader must  *)
(* hold two extents, VerifyTrustedAddressRange must accept both, and the   *)
(* config must parse.                                                      *)
Initialize(t, nargsOk, inputTrusted, nameTrusted, parses) ==
    /\ ~aborted
    /\ pc[t] = "idle"
    /\ op' = [op EXCEPT ![t] = "init"]
    /\ IF ~nargsOk \/ ~inputTrusted \/ ~nameTrusted
         THEN Finish(t, kInvalidArgument, "none", NoState)
         ELSE IF ~parses
           THEN Finish(t, 0, "INVALID_ARGUMENT", NoState)
           ELSE /\ pc' = [pc EXCEPT ![t] = "init_vass"]
                /\ UNCHANGED <<ret, status, post>>
    /\ UNCHANGED <<globals, lk, seen, user, masked>>
    /\ UNCHANGED others

(* The values of a property of a message that is only looked at when      *)
(* the checks before it have passed.                                       *)
IfLookedAt(passed) == IF passed THEN BOOLEAN ELSE {TRUE}

(* Entry of the Initialize handler with any message. *)
InitCall(t) ==
    /\ pc[t] = "idle"
    /\ \E nargsOk \in BOOLEAN :
       \E inputTrusted \in IfLookedAt(nargsOk) :
       \E nameTrusted \in IfLookedAt(nargsOk /\ inputTrusted) :
       \E parses \in IfLookedAt(nargsOk /\ inputTrusted /\ nameTrusted) :
           Initialize(t, nargsOk, inputTrusted, nameTrusted, parses)

(* SetEnclaveConfig (trusted_global_state.cc, not in these sources):       *)
(* the first config is kept; a later one replaces it or is refused.        *)
SetEnclaveConfig(c) ==
    IF enable_fork = "unset"
      THEN enable_fork' = c
      ELSE enable_fork' \in {enable_fork, c}

(* InitializeInternal up to its VerifyAndSetState: I/O, environment,       *)
(* logging, the global config (c is the enable_fork field of the config    *)
(* the caller passed), assertion authorities; failures of these are        *)
(* logged and do not stop initialization.                                  *)
InitializeInternal(t) ==
    /\ ~aborted
    /\ pc[t] = "init_internal"
    /\ \E c \in ForkSettings : SetEnclaveConfig(c)
    /\ pc' = [pc EXCEPT ![t] = "internal_vass"]
    /\ UNCHANGED <<enclave_state, mutex, aborted, fini_calls, last_write>>
    /\ UNCHANGED <<op, lk, seen, user, masked, ret, status, post>>
    /\ UNCHANGED others

(* InitializeInternal: return Initialize(config), the user's logic. *)
UserInitialize(t) ==
    /\ ~aborted
    /\ pc[t] = "init_user"
    /\ \E o \in UserOutcomes :
         /\ user' = [user EXCEPT ![t] = o]
         /\ CASE o = "OK" ->
                   /\ pc' = [pc EXCEPT ![t] = "init_set_running"]
                   /\ status' = [status EXCEPT ![t] = "OK"]
                   /\ UNCHANGED <<aborted, ret, post>>
              [] o = "ERROR" ->
                   /\ pc' = [pc EXCEPT ![t] = "init_unwind"]
                   /\ status' = [status EXCEPT ![t] = "USER_ERROR"]
                   /\ UNCHANGED <<aborted, ret, post>>
              [] o = "THROW" -> Thrown(t)
    /\ UNCHANGED <<enclave_state, mutex, enable_fork, fini_calls, last_write>>
    /\ UNCHANGED <<op, lk, seen, masked>>
    /\ UNCHANGED others

InitFailureStateKept == kUserInitializing

(* The state __asylo_user_init sets when InitializeInternal failed. *)
InitFailureState == kUninitialized

InitSuccessStateUserInitializing == kUserInitializing

(* The state __asylo_user_init sets when InitializeInternal succeeded. *)
InitSuccessState == kRunning

(* __asylo_user_init: SetState(kUninitialized); return Serialize(status). *)
InitUnwind(t) ==
    /\ ~aborted
    /\ pc[t] = "init_unwind"
    /\ SetState(t, InitFailureState)
    /\ Finish(t, 0, status[t], InitFailureState)
    /\ UNCHANGED <<enable_fork, aborted, fini_calls>>
    /\ UNCHANGED <<op, lk, seen, user, masked>>
    /\ UNCHANGED others

(* __asylo_user_init: SetState(kRunning); return Serialize(status). *)
InitSetRunning(t) ==
    /\ ~aborted
    /\ pc[t] = "init_set_running"
    /\ SetState(t, InitSuccessState)
    /\ Finish(t, 0, status[t], InitSuccessState)
    /\ UNCHANGED <<enable_fork, aborted, fini_calls>>
    /\ UNCHANGED <<op, lk, seen, user, masked>>
    /\ UNCHANGED others

(* ---------------------------------------------------------------------- *)
(* Run handler and __asylo_user_run.                                       *)

RunAdmittedFromRunningOn(s) == s >= kRunning

(* __asylo_user_run goes on iff GetState() == kRunning. *)
RunAdmitted(s) == s = kRunning

(* The Run handler through the state check.  The handler reads its one    *)
(* extent and passes it to __asylo_user_run: where the extent lies         *)
(* (inputTrusted) is not looked at.                                        *)
Run(t, nargsOk, inputTrusted, parses) ==
    /\ ~aborted
    /\ pc[t] = "idle"
    /\ op' = [op EXCEPT ![t] = "run"]
    /\ IF ~nargsOk
         THEN Finish(t, kInvalidArgument, "none", NoState) /\ UNCHANGED seen
         ELSE IF ~parses
           THEN Finish(t, 0, "INVALID_ARGUMENT", NoState) /\ UNCHANGED seen
           ELSE /\ GetState(t)
                /\ IF RunAdmitted(enclave_state)
                     THEN /\ pc' = [pc EXCEPT ![t] = "run_user"]
                          /\ UNCHANGED <<ret, status, post>>
                     ELSE Finish(t, 0, "FAILED_PRECONDITION", NoState)
    /\ UNCHANGED <<globals, lk, user, masked>>
    /\ UNCHANGED others

(* Entry of the Run handler with any message. *)
RunCall(t) ==
    /\ pc[t] = "idle"
    /\ \E nargsOk \in BOOLEAN :
       \E inputTrusted, parses \in IfLookedAt(nargsOk) :
           Run(t, nargsOk, inputTrusted, parses)

(* __asylo_user_run: status = trusted_application->Run(input, &output). *)
UserRun(t) ==
    /\ ~aborted
    /\ pc[t] = "run_user"
    /\ \E o \in UserOutcomes :
         /\ user' = [user EXCEPT ![t] = o]
         /\ CASE o = "OK" -> Finish(t, 0, "OK", NoState) /\ UNCHANGED aborted
              [] o = "ERROR" ->
                   Finish(t, 0, "USER_ERROR", NoState) /\ UNCHANGED aborted
              [] o = "THROW" -> Thrown(t)
    /\ UNCHANGED <<enclave_state, mutex, enable_fork, fini_calls, last_write>>
    /\ UNCHANGED <<op, lk, seen, masked>>
    /\ UNCHANGED others

(* ---------------------------------------------------------------------- *)
(* Finalize handler and __asylo_user_fini.                                 *)

(* The Finalize handler up to the state check; it passes its extent to    *)
(* __asylo_user_fini wherever the extent lies.                             *)
Finalize(t, nargsOk, inputTrusted, parses) ==
    /\ ~aborted
    /\ pc[t] = "idle"
    /\ op' = [op EXCEPT ![t] = "fini"]
    /\ IF ~nargsOk
         THEN Finish(t, kInvalidArgument, "none", NoState)
         ELSE IF ~parses
           THEN Finish(t, 0, "INVALID_ARGUMENT", NoState)
           ELSE /\ pc' = [pc EXCEPT ![t] = "fini_vass"]
                /\ UNCHANGED <<ret, status, post>>
    /\ UNCHANGED <<globals, lk, seen, user, masked>>
    /\ UNCHANGED others

(* Entry of the Finalize handler with any message. *)
FiniCall(t) ==
    /\ pc[t] = "idle"
    /\ \E nargsOk \in BOOLEAN :
       \E inputTrusted, parses \in IfLookedAt(nargsOk) :
           Finalize(t, nargsOk, inputTrusted, parses)

(* __asylo_user_fini: status = trusted_application->Finalize(final). *)
UserFinalize(t) ==
    /\ ~aborted
    /\ pc[t] = "fini_user"
    /\ fini_calls' = fini_calls + 1
    /\ \E o \in UserOutcomes :
         /\ user' = [user EXCEPT ![t] = o]
         /\ CASE o = "OK" ->
                   /\ pc' = [pc EXCEPT ![t] = "fini_set"]
                   /\ status' = [status EXCEPT ![t] = "OK"]
                   /\ UNCHANGED <<aborted, ret, post>>
              [] o = "ERROR" ->
                   /\ pc' = [pc EXCEPT ![t] = "fini_set"]
                   /\ status' = [status EXCEPT ![t] = "USER_ERROR"]
                   /\ UNCHANGED <<aborted, ret, post>>
              [] o = "THROW" -> Thrown(t)
    /\ UNCHANGED <<enclave_state, mutex, enable_fork, last_write>>
    /\ UNCHANGED <<op, lk, seen, masked>>
    /\ UNCHANGED others

FiniFinalStateOnSuccessOnly(s) == IF s = "OK" THEN kFinalized ELSE kFinalizing

(* The state __asylo_user_fini sets after the finalization logic returned *)
(* status s: kFinalized, whatever s is.                                    *)
FiniFinalState(s) == kFinalized

(* __asylo_user_fini: thread_manager->Finalize(); SetState(kFinalized);    *)
(* return Serialize(status).                                               *)
FiniSetFinalized(t) ==
    /\ ~aborted
    /\ pc[t] = "fini_set"
    /\ SetState(t, FiniFinalState(status[t]))
    /\ Finish(t, 0, status[t], FiniFinalState(status[t]))
    /\ UNCHANGED <<enable_fork, aborted, fini_calls>>
    /\ UNCHANGED <<op, lk, seen, user, masked>>
    /\ UNCHANGED others

(* ---------------------------------------------------------------------- *)
(* DeliverSignal handler and __asylo_handle_signal.                        *)

SignalAdmittedNoUpperBound(s) == ~(s < kRunning)

(* __asylo_handle_signal goes on unless                                    *)
(* current_state < kRunning || current_state > kFinalizing.                *)
SignalAdmitted(s) == ~(s < kRunning \/ s > kFinalizing)

SignalBlockedNever(mask, signum) == FALSE

(* sigismember(&mask, signum) *)
SignalBlocked(mask, signum) == signum \in mask

(* The DeliverSignal handler through the state check; it passes its       *)
(* extent to __asylo_handle_signal wherever the extent lies.               *)
DeliverSignal(t, nargsOk, inputTrusted, parses) ==
    /\ ~aborted
    /\ pc[t] = "idle"
    /\ op' = [op EXCEPT ![t] = "signal"]
    /\ IF ~nargsOk
         THEN Finish(t, kInvalidArgument, "none", NoState) /\ UNCHANGED seen
         ELSE IF ~parses
           THEN Finish(t, kSignalFailed, "none", NoState) /\ UNCHANGED seen
           ELSE /\ GetState(t)
                /\ IF SignalAdmitted(enclave_state)
                     THEN /\ pc' = [pc EXCEPT ![t] = "signal_deliver"]
                          /\ UNCHANGED <<ret, status, post>>
                     ELSE Finish(t, kSignalWrongState, "none", NoState)
    /\ UNCHANGED <<globals, lk, user, masked>>
    /\ UNCHANGED others

(* Entry of the DeliverSignal handler with any message. *)
SignalCall(t) ==
    /\ pc[t] = "idle"
    /\ \E nargsOk \in BOOLEAN :
       \E inputTrusted, parses \in IfLookedAt(nargsOk) :
           DeliverSignal(t, nargsOk, inputTrusted, parses)

(* __asylo_handle_signal after the state check: translate the signal      *)
(* number, query the signal mask, then SignalManager::HandleSignal, which  *)
(* runs the handler the user registered.                                   *)
SignalDeliver(t) ==
    /\ ~aborted
    /\ pc[t] = "signal_deliver"
    /\ \E b \in BridgeSignums :
         LET signum == FromBridgeSignal(b) IN
         IF signum < 0
           THEN /\ Finish(t, kSignalFailed, "none", NoState)
                /\ UNCHANGED <<aborted, user, masked>>
           ELSE \E mask \in SUBSET EnclaveSignums :
             IF SignalBlocked(mask, signum)
               THEN /\ masked' = [masked EXCEPT ![t] = TRUE]
                    /\ Finish(t, kSignalBlocked, "none", NoState)
                    /\ UNCHANGED <<aborted, user>>
               ELSE \E o \in UserOutcomes :
                    /\ masked' = [masked EXCEPT ![t] = signum \in mask]
                    /\ user' = [user EXCEPT ![t] = o]
                    /\ CASE o = "OK" ->
                              /\ Finish(t, kSignalOk, "none", NoState)
                              /\ UNCHANGED aborted
                         [] o = "ERROR" ->
                              /\ Finish(t, kSignalFailed, "none", NoState)
                              /\ UNCHANGED aborted
                         [] o = "THROW" -> Thrown(t)
    /\ UNCHANGED <<enclave_state, mutex, enable_fork, fini_calls, last_write>>
    /\ UNCHANGED <<op, lk, seen>>
    /\ UNCHANGED others

(* ---------------------------------------------------------------------- *)
(* Fork entry points.                                                      *)

ForkConfigErrorIgnored == "none"

(* The check of the global config shared by __asylo_take_snapshot and      *)
(* __asylo_restore: "none" when it passes, else the Status returned.       *)
ForkConfigError ==
    CASE enable_fork = "unset" -> "CONFIG_UNSET"
      [] enable_fork = "off" -> "FAILED_PRECONDITION"
      [] enable_fork = "on" -> "none"

(* __asylo_take_snapshot up to the state check: output arguments, config. *)
SnapshotCall(t) ==
    /\ ~aborted
    /\ pc[t] = "idle"
    /\ op' = [op EXCEPT ![t] = "snapshot"]
    /\ \E outputOk \in BOOLEAN :
         IF ~outputOk
           THEN Finish(t, 1, "none", NoState)
           ELSE IF ForkConfigError # "none"
             THEN Finish(t, 0, ForkConfigError, NoState)
             ELSE /\ pc' = [pc EXCEPT ![t] = "snapshot_state"]
                  /\ UNCHANGED <<ret, status, post>>
    /\ UNCHANGED <<globals, lk, seen, user, masked>>
    /\ UNCHANGED others

(* __asylo_take_snapshot: GetState() != kRunning is refused. *)
SnapshotGetState(t) ==
    /\ ~aborted
    /\ pc[t] = "snapshot_state"
    /\ GetState(t)
    /\ IF enclave_state # kRunning
         THEN Finish(t, 0, "FAILED_PRECONDITION", NoState)
         ELSE /\ pc' = [pc EXCEPT ![t] = "snapshot_take"]
              /\ UNCHANGED <<ret, status, post>>
    /\ UNCHANGED <<globals, op, lk, user, masked>>
    /\ UNCHANGED others

(* __asylo_take_snapshot: status = TakeSnapshotForFork(&snapshot_layout). *)
SnapshotTake(t) ==
    /\ ~aborted
    /\ pc[t] = "snapshot_take"
    /\ \E o \in {"OK", "ERROR"} :
         /\ user' = [user EXCEPT ![t] = o]
         /\ Finish(t, 0, IF o = "OK" THEN "OK" ELSE "USER_ERROR", NoState)
    /\ UNCHANGED <<globals, op, lk, seen, masked>>
    /\ UNCHANGED others

(* __asylo_restore up to the state check: output arguments, config. *)
RestoreCall(t) ==
    /\ ~aborted
    /\ pc[t] = "idle"
    /\ op' = [op EXCEPT ![t] = "restore"]
    /\ \E outputOk \in BOOLEAN :
         IF ~outputOk
           THEN Finish(t, 1, "none", NoState)
           ELSE IF ForkConfigError # "none"
             THEN Finish(t, 0, ForkConfigError, NoState)
             ELSE /\ pc' = [pc EXCEPT ![t] = "restore_state"]
                  /\ UNCHANGED <<ret, status, post>>
    /\ UNCHANGED <<globals, lk, seen, user, masked>>
    /\ UNCHANGED others

(* __asylo_restore: GetState() != kRunning is refused. *)
RestoreGetState(t) ==
    /\ ~aborted
    /\ pc[t] = "restore_state"
    /\ GetState(t)
    /\ IF enclave_state # kRunning
         THEN Finish(t, 0, "FAILED_PRECONDITION", NoState)
         ELSE /\ pc' = [pc EXCEPT ![t] = "restore_run"]
              /\ UNCHANGED <<ret, status, post>>
    /\ UNCHANGED <<globals, op, lk, user, masked>>
    /\ UNCHANGED others

(* __asylo_restore: status = RestoreForFork(snapshot_layout, len). *)
RestoreForFork(t) ==
    /\ ~aborted
    /\ pc[t] = "restore_run"
    /\ \E o \in {"OK", "ERROR"} :
         /\ user' = [user EXCEPT ![t] = o]
         /\ IF o = "OK"
              THEN Finish(t, 0, "OK", NoState)
              ELSE /\ pc' = [pc EXCEPT ![t] = "restore_failed"]
                   /\ status' = [status EXCEPT ![t] = "USER_ERROR"]
                   /\ UNCHANGED <<ret, post>>
    /\ UNCHANGED <<globals, op, lk, seen, masked>>
    /\ UNCHANGED others

RestoreFailureStateKept == kRunning

(* The state __asylo_restore sets after a failed RestoreForFork. *)
RestoreFailureState == kFinalized

(* __asylo_restore after a failed RestoreForFork: thread_manager->Finalize();*)
(* SetState(kFinalized); return Serialize(status).                         *)
RestoreFailed(t) ==
    /\ ~aborted
    /\ pc[t] = "restore_failed"
    /\ SetState(t, RestoreFailureState)
    /\ Finish(t, 0, status[t], RestoreFailureState)
    /\ UNCHANGED <<enable_fork, aborted, fini_calls>>
    /\ UNCHANGED <<op, lk, seen, user, masked>>
    /\ UNCHANGED others

(* __asylo_transfer_secure_snapshot_key through the state check. *)
TransferCall(t) ==
    /\ ~aborted
    /\ pc[t] = "idle"
    /\ op' = [op EXCEPT ![t] = "transfer"]
    /\ \E outputOk, parses \in BOOLEAN :
         IF ~outputOk
           THEN Finish(t, 1, "none", NoState) /\ UNCHANGED seen
           ELSE IF ~parses
             THEN Finish(t, 0, "INVALID_ARGUMENT", NoState) /\ UNCHANGED seen
             ELSE /\ GetState(t)
                  /\ IF enclave_state # kRunning
                       THEN Finish(t, 0, "FAILED_PRECONDITION", NoState)
                       ELSE /\ pc' = [pc EXCEPT ![t] = "transfer_run"]
                            /\ UNCHANGED <<ret, status, post>>
    /\ UNCHANGED <<globals, lk, user, masked>>
    /\ UNCHANGED others

(* __asylo_transfer_secure_snapshot_key:                                   *)
(* status = TransferSecureSnapshotKey(fork_handshake_config).              *)
TransferSecureSnapshotKey(t) ==
    /\ ~aborted
    /\ pc[t] = "transfer_run"
    /\ \E o \in {"OK", "ERROR"} :
         /\ user' = [user EXCEPT ![t] = o]
         /\ Finish(t, 0, IF o = "OK" THEN "OK" ELSE "USER_ERROR", NoState)
    /\ UNCHANGED <<globals, op, lk, seen, masked>>
    /\ UNCHANGED others

(* ---------------------------------------------------------------------- *)

(* The caller has the result; the host thread is free for its next call. *)
Return(t) ==
    /\ ~aborted
    /\ pc[t] = "done"
    /\ op' = [op EXCEPT ![t] = "none"]
    /\ pc' = [pc EXCEPT ![t] = "idle"]
    /\ seen' = [seen EXCEPT ![t] = NoState]
    /\ user' = [user EXCEPT ![t] = "none"]
    /\ masked' = [masked EXCEPT ![t] = FALSE]
    /\ ret' = [ret EXCEPT ![t] = 0]
    /\ status' = [status EXCEPT ![t] = "none"]
    /\ post' = [post EXCEPT ![t] = NoState]
    /\ UNCHANGED <<globals, lk>>
    /\ UNCHANGED others

Next ==
    \E t \in Threads :
        \/ VASS_Lock(t)
        \/ VASS_Compare(t)
        \/ VASS_Set(t)
        \/ InitCall(t)
        \/ InitializeInternal(t)
        \/ UserInitialize(t)
        \/ InitUnwind(t)
        \/ InitSetRunning(t)
        \/ RunCall(t)
        \/ UserRun(t)
        \/ FiniCall(t)
        \/ UserFinalize(t)
        \/ FiniSetFinalized(t)
        \/ SignalCall(t)
        \/ SignalDeliver(t)
        \/ SnapshotCall(t)
        \/ SnapshotGetState(t)
        \/ SnapshotTake(t)
        \/ RestoreCall(t)
        \/ RestoreGetState(t)
        \/ RestoreForFork(t)
        \/ RestoreFailed(t)
        \/ TransferCall(t)
        \/ TransferSecureSnapshotKey(t)
        \/ Return(t)

Spec == Init /\ [][Next]_vars

(* ---------------------------------------------------------------------- *)
(* The driver of embedded_enclave_test_driver.cc on a loaded enclave:      *)
(* EnterAndInitialize, then EnterAndRun any number of times and from any   *)
(* thread, then EnterAndFinalize when no call is in progress, while the    *)
(* host delivers signals. The inputs of the three calls are well-formed    *)
(* and the logic of the application succeeds.                              *)

AllIdle == \A u \in Threads : pc[u] = "idle"

(* The input of the call of thread t had its extents and parsed. *)
WellFormedInput(t) == ret'[t] = 0 /\ status'[t] # "INVALID_ARGUMENT"

(* LoadEnclave: the first call, on the enclave as loaded. *)
DriverInitialize(t) ==
    /\ AllIdle
    /\ last_write.by = "none"
    /\ InitCall(t)
    /\ WellFormedInput(t)

(* EnterAndRun, after LoadEnclave has returned. *)
DriverRun(t) ==
    /\ last_write.by = "init"
    /\ \A u \in Threads : op[u] \in {"none", "run", "signal"}
    /\ RunCall(t)
    /\ WellFormedInput(t)

(* DestroyEnclave, after the calls of EnterAndRun have returned. *)
DriverFinalize(t) ==
    /\ AllIdle
    /\ last_write.by = "init"
    /\ FiniCall(t)
    /\ WellFormedInput(t)

DriverNext ==
    \E t \in Threads :
        \/ DriverInitialize(t)
        \/ DriverRun(t)
        \/ DriverFinalize(t)
        \/ VASS_Lock(t)
        \/ VASS_Compare(t)
        \/ VASS_Set(t)
        \/ InitializeInternal(t)
        \/ UserInitialize(t) /\ user'[t] = "OK"
        \/ InitSetRunning(t)
        \/ UserRun(t) /\ user'[t] = "OK"
        \/ UserFinalize(t) /\ user'[t] = "OK"
        \/ FiniSetFinalized(t)
        \/ SignalCall(t)
        \/ SignalDeliver(t) /\ user'[t] \notin {"ERROR", "THROW"}
        \/ Return(t)

SpecDriver == Init /\ [][DriverNext]_vars

(* ---------------------------------------------------------------------- *)
(* ocall_enc_untrusted_fork, asylo/platform/arch/sgx/untrusted/ocalls.cc.  *)
(* The ocall is made by an enclave loaded through the EnclaveManager, so   *)
(* EnclaveManager::Instance() yields the manager.  The parent takes one    *)
(* step per system call and per enclave entry; after fork() the child is a *)
(* second process with copies of the descriptors and of the deleters.      *)

OutsideFork ==
    UNCHANGED <<vars, signal_vars, call_vars, key_vars, transmit_vars, bridge_vars,
                restore_snapshot>>

ForkFrame == OutsideFork /\ UNCHANGED <<wait_result, rc, pid>>

(* Entry b of the layout exists: its index is within its category.         *)
InLayout(b) == b[2] <= snapshot_layout[b[1]]

Goto(p, label) ==
    /\ fpc' = [fpc EXCEPT ![p] = label]
    /\ UNCHANGED <<fret, freed>>

(* return r: the destructors of the deleter vectors, if they were built,   *)
(* free both buffers of every entry.                                       *)
Leave(p, r) ==
    /\ fpc' = [fpc EXCEPT ![p] = "returned"]
    /\ fret' = [fret EXCEPT ![p] = r]
    /\ freed' = IF deleters
                THEN [freed EXCEPT ![p] =
                         [b \in Buffers |-> IF InLayout(b) THEN @[b] + 1 ELSE @[b]]]
                ELSE freed

SetErrno(p, e) == ferrno' = [ferrno EXCEPT ![p] = e]

Step(p, names) == steps' = [steps EXCEPT ![p] = @ \o names]

(* close(fd) in process p, successful or not. *)
Close(p, fd) ==
    /\ fds' = [fds EXCEPT ![p][fd] = "closed"]
    /\ closes' = [closes EXCEPT ![p][fd] = @ + 1]

(* fork() gives -1 to the caller, or the child's pid to the caller and 0   *)
(* to the child.                                                           *)
OsForkResult(ok) ==
    IF ok THEN [p \in Procs |-> IF p = "parent" THEN "pid" ELSE "0"]
          ELSE [pid EXCEPT !["parent"] = "-1"]

(* restore_snapshot is false: pid = fork().  errno is that of fork().      *)
PlainFork ==
    /\ fpc["parent"] = "start"
    /\ ~restore_snapshot
    /\ os_forks' = os_forks + 1
    /\ Step("parent", <<"fork">>)
    /\ \E ok \in BOOLEAN :
          /\ pid' = OsForkResult(ok)
          /\ fpc' = [q \in Procs |-> IF ok \/ q = "parent" THEN "plain_return"
                                                           ELSE fpc[q]]
          /\ ferrno' = IF ok THEN ferrno ELSE [ferrno EXCEPT !["parent"] = "OS"]
    /\ UNCHANGED <<snapshot_layout, deleters, fret, fds, closes, freed, pipe,
                   pipe_writes, outcome, child_result, loaded, wait_result, rc,
                   buf, exited>>
    /\ OutsideFork

SetsProcessIdInBoth(v) == TRUE

(* if (pid == 0) primitive_client->SetProcessId(); *)
SetsProcessId(v) == v = "0"

(* Both processes of the plain fork: SetProcessId in the child, return pid. *)
PlainReturn(p) ==
    /\ fpc[p] = "plain_return"
    /\ Step(p, IF SetsProcessId(pid[p]) THEN <<"SetProcessId">> ELSE <<>>)
    /\ Leave(p, pid[p])
    /\ UNCHANGED <<snapshot_layout, deleters, ferrno, fds, closes, pipe,
                   pipe_writes, outcome, child_result, loaded, buf, exited,
                   os_forks>>
    /\ ForkFrame

(* EnterAndTakeSnapshot(&snapshot_layout).  The enclave copies the layout  *)
(* it has filled so far to its output whatever the status is, so a failed  *)
(* snapshot may leave entries in snapshot_layout.  On failure the ocall    *)
(* returns before the deleter vectors exist.                               *)
TakeSnapshot ==
    /\ fpc["parent"] = "start"
    /\ restore_snapshot
    /\ Step("parent", <<"EnterAndTakeSnapshot">>)
    /\ \E layout \in [Categories -> 0..MaxEntries], st \in {"OK", "ERROR"} :
          /\ snapshot_layout' = layout
          /\ IF st = "OK"
             THEN /\ deleters' = TRUE
                  /\ Goto("parent", "load_config")
                  /\ UNCHANGED ferrno
             ELSE /\ UNCHANGED deleters
                  /\ Leave("parent", "-1")
                  /\ SetErrno("parent", "ENOMEM")
    /\ UNCHANGED <<fds, closes, pipe, pipe_writes, outcome, child_result,
                   loaded, buf, exited, os_forks>>
    /\ ForkFrame

(* load_config.HasExtension(sgx_load_config). *)
GetLoadConfig ==
    /\ fpc["parent"] = "load_config"
    /\ \/ /\ Goto("parent", "socketpair")
          /\ UNCHANGED ferrno
       \/ /\ Leave("parent", "-1")
          /\ SetErrno("parent", "EFAULT")
    /\ UNCHANGED <<snapshot_layout, deleters, fds, closes, pipe, pipe_writes,
                   steps, outcome, child_result, loaded, buf, exited, os_forks>>
    /\ ForkFrame

SocketPair ==
    /\ fpc["parent"] = "socketpair"
    /\ Step("parent", <<"socketpair">>)
    /\ \/ /\ fds' = [fds EXCEPT !["parent"]["socket_pair0"] = "open",
                                !["parent"]["socket_pair1"] = "open"]
          /\ Goto("parent", "pipe")
          /\ UNCHANGED ferrno
       \/ /\ UNCHANGED fds
          /\ Leave("parent", "-1")
          /\ SetErrno("parent", "EFAULT")
    /\ UNCHANGED <<snapshot_layout, deleters, closes, pipe, pipe_writes,
                   outcome, child_result, loaded, buf, exited, os_forks>>
    /\ ForkFrame

Pipe ==
    /\ fpc["parent"] = "pipe"
    /\ Step("parent", <<"pipe">>)
    /\ \/ /\ fds' = [fds EXCEPT !["parent"]["pipefd0"] = "open",
                                !["parent"]["pipefd1"] = "open"]
          /\ Goto("parent", "fork")
          /\ UNCHANGED ferrno
       \/ /\ UNCHANGED fds
          /\ Leave("parent", "-1")
          /\ SetErrno("parent", "EFAULT")
    /\ UNCHANGED <<snapshot_layout, deleters, closes, pipe, pipe_writes,
                   outcome, child_result, loaded, buf, exited, os_forks>>
    /\ ForkFrame

(* pid = fork(): -1, or a child that holds copies of the descriptors, of   *)
(* errno and of the deleter vectors.                                       *)
OsFork ==
    /\ fpc["parent"] = "fork"
    /\ os_forks' = os_forks + 1
    /\ Step("parent", <<"fork">>)
    /\ \E ok \in BOOLEAN :
          /\ pid' = OsForkResult(ok)
          /\ IF ok
             THEN /\ fpc' = [fpc EXCEPT !["parent"] = "parent_close_pipe",
                                        !["child"] = "child_close_pipe"]
                  /\ fds' = [fds EXCEPT !["child"] = fds["parent"]]
                  /\ UNCHANGED <<fret, freed, ferrno>>
             ELSE /\ Leave("parent", "-1")
                  /\ SetErrno("parent", "OS")
                  /\ UNCHANGED fds
    /\ UNCHANGED <<snapshot_layout, deleters, closes, pipe, pipe_writes,
                   outcome, child_result, loaded, wait_result, rc, buf, exited>>
    /\ OutsideFork

(* DoSnapshotKeyTransfer(self_socket, peer_socket): close(peer_socket),    *)
(* then EnterAndTransferSecureSnapshotKey unless the close failed; the     *)
(* FdCloser closes self_socket on every return.  The result is that of the *)
(* enclave entry, or the error of the close.  outcome keeps the descriptor *)
(* closed as the peer's and the one set in the ForkHandshakeConfig of the  *)
(* enclave entry.                                                          *)
DoSnapshotKeyTransfer(p, self_socket, peer_socket, close_ok, st) ==
    /\ fds' = [fds EXCEPT ![p][peer_socket] = "closed",
                          ![p][self_socket] = "closed"]
    /\ closes' = [closes EXCEPT ![p][peer_socket] = @ + 1,
                                ![p][self_socket] = @ + 1]
    /\ outcome' = [outcome EXCEPT ![p]["transfer"] =
                                      IF close_ok THEN st ELSE "ERROR",
                                  ![p]["peer_socket"] = peer_socket,
                                  ![p]["self_socket"] =
                                      IF close_ok THEN self_socket ELSE @]
    /\ Step(p, IF close_ok THEN <<"EnterAndTransferSecureSnapshotKey">>
                           ELSE <<>>)

(* The child closes the read end of the pipe. *)
ChildClosePipe ==
    /\ fpc["child"] = "child_close_pipe"
    /\ Close("child", "pipefd0")
    /\ \/ /\ Goto("child", "load")
          /\ UNCHANGED ferrno
       \/ /\ Leave("child", "-1")
          /\ SetErrno("child", "EFAULT")
    /\ UNCHANGED <<snapshot_layout, deleters, pipe, pipe_writes, steps,
                   outcome, child_result, loaded, buf, exited, os_forks>>
    /\ ForkFrame

SameAddressSpaceAndSize(l) == l.base /\ l.size

SameAddressSpaceUnverified(l) == TRUE

(* The test the child makes of the enclave it loaded:                      *)
(* child_enclave_base_address != enclave_base_address.                     *)
SameAddressSpace(l) == l.base

(* LoadEnclave with the parent's base address and size in the fork config, *)
(* then the test of where the new enclave is.                              *)
ChildLoadEnclave ==
    /\ fpc["child"] = "load"
    /\ \/ /\ Step("child", <<"LoadEnclave">>)
          /\ Leave("child", "-1")
          /\ SetErrno("child", "ENOMEM")
          /\ UNCHANGED <<loaded, child_result>>
       \/ \E l \in [base : BOOLEAN, size : BOOLEAN] :
             /\ loaded' = l
             /\ Step("child", <<"LoadEnclave", "GetBaseAddress">>)
             /\ IF SameAddressSpace(l)
                THEN /\ child_result' = kChildSucceeded
                     /\ Goto("child", "child_transfer")
                     /\ UNCHANGED ferrno
                ELSE /\ Leave("child", "-1")
                     /\ SetErrno("child", "EAGAIN")
                     /\ UNCHANGED child_result
    /\ UNCHANGED <<snapshot_layout, deleters, fds, closes, pipe, pipe_writes,
                   outcome, buf, exited, os_forks>>
    /\ ForkFrame

(* The child's key transfer: its own socket is socket_pair[0]. *)
ChildKeyTransfer ==
    /\ fpc["child"] = "child_transfer"
    /\ \E close_ok \in BOOLEAN, st \in {"OK", "ERROR"} :
          /\ DoSnapshotKeyTransfer("child", "socket_pair0", "socket_pair1",
                                   close_ok, st)
          /\ IF close_ok /\ st = "OK"
             THEN /\ Goto("child", "restore")
                  /\ UNCHANGED child_result
             ELSE /\ child_result' = kChildTransferFailed
                  /\ Goto("child", "write")
    /\ UNCHANGED <<snapshot_layout, deleters, ferrno, pipe, pipe_writes,
                   loaded, buf, exited, os_forks>>
    /\ ForkFrame

(* EnterAndRestore(snapshot_layout) in the child enclave. *)
ChildRestore ==
    /\ fpc["child"] = "restore"
    /\ Step("child", <<"EnterAndRestore">>)
    /\ \E st \in {"OK", "ERROR"} :
          /\ outcome' = [outcome EXCEPT !["child"]["restore"] = st]
          /\ child_result' = IF st = "OK" THEN child_result
                                          ELSE kChildRestoreFailed
    /\ Goto("child", "write")
    /\ UNCHANGED <<snapshot_layout, deleters, ferrno, fds, closes, pipe,
                   pipe_writes, loaded, buf, exited, os_forks>>
    /\ ForkFrame

(* errno the child sets after it has reported child_result. *)
ErrnoAfterReport(result) ==
    IF result = kChildTransferFailed THEN "EFAULT" ELSE "EAGAIN"

(* write(pipefd[1], child_result): a failed write returns -1 at once; a    *)
(* reported failure sets errno and returns -1; success falls to return pid.*)
ChildWrite ==
    /\ fpc["child"] = "write"
    /\ Step("child", <<"write">>)
    /\ \/ /\ Leave("child", "-1")
          /\ SetErrno("child", "OS")
          /\ UNCHANGED <<pipe, pipe_writes>>
       \/ /\ pipe' = Append(pipe, child_result)
          /\ pipe_writes' = pipe_writes + 1
          /\ IF child_result = kChildSucceeded
             THEN /\ Leave("child", pid["child"])
                  /\ UNCHANGED ferrno
             ELSE /\ Leave("child", "-1")
                  /\ SetErrno("child", ErrnoAfterReport(child_result))
    /\ UNCHANGED <<snapshot_layout, deleters, fds, closes, outcome,
                   child_result, loaded, buf, exited, os_forks>>
    /\ ForkFrame

(* The child process terminates after its fork has returned; the kernel    *)
(* then releases its descriptors, the write end of the pipe among them.    *)
ChildExit ==
    /\ fpc["child"] = "returned"
    /\ ~exited
    /\ exited' = TRUE
    /\ UNCHANGED <<snapshot_layout, deleters, fpc, fret, ferrno, fds, closes,
                   freed, pipe, pipe_writes, steps, outcome, child_result,
                   loaded, buf, os_forks>>
    /\ ForkFrame

(* The parent closes the write end of the pipe. *)
ParentClosePipe ==
    /\ fpc["parent"] = "parent_close_pipe"
    /\ Close("parent", "pipefd1")
    /\ \/ /\ Goto("parent", "parent_transfer")
          /\ UNCHANGED ferrno
       \/ /\ Leave("parent", "-1")
          /\ SetErrno("parent", "EFAULT")
    /\ UNCHANGED <<snapshot_layout, deleters, pipe, pipe_writes, steps,
                   outcome, child_result, loaded, buf, exited, os_forks>>
    /\ ForkFrame

(* The other descriptor of the socket pair. *)
OtherSocket(s) == IF s = "socket_pair0" THEN "socket_pair1" ELSE "socket_pair0"

ParentSelfSocketAsCommented == "socket_pair0"

(* DoSnapshotKeyTransfer(manager, client, self_socket = socket_pair[1],    *)
(* peer_socket = socket_pair[0], is_parent = true).                        *)
ParentSelfSocket == "socket_pair1"

(* The parent's key transfer: its own socket is socket_pair[1]. *)
ParentKeyTransfer ==
    /\ fpc["parent"] = "parent_transfer"
    /\ \E close_ok \in BOOLEAN, st \in {"OK", "ERROR"} :
          /\ DoSnapshotKeyTransfer("parent", ParentSelfSocket,
                                   OtherSocket(ParentSelfSocket), close_ok, st)
          /\ IF close_ok /\ st = "OK"
             THEN /\ Goto("parent", "select")
                  /\ UNCHANGED ferrno
             ELSE /\ Leave("parent", "-1")
                  /\ SetErrno("parent", "EFAULT")
    /\ UNCHANGED <<snapshot_layout, deleters, pipe, pipe_writes, child_result,
                   loaded, buf, exited, os_forks>>
    /\ ForkFrame

(* Every write end of the pipe is closed: the parent closed its own and    *)
(* the child, which never closes pipefd[1], has terminated.                *)
EndOfFile == fds["parent"]["pipefd1"] = "closed" /\ exited

SelectNeverTimesOut == FALSE

(* select() is given a timeout of timeout_seconds: it returns 0 when the   *)
(* pipe stays unreadable that long.                                        *)
SelectTimesOut == pipe = <<>> /\ ~EndOfFile

(* select() on pipefd[0] returns -1: it was interrupted or failed.         *)
ParentSelectError ==
    /\ fpc["parent"] = "select"
    /\ Step("parent", <<"select">>)
    /\ wait_result' = "error"
    /\ Leave("parent", "-1")
    /\ SetErrno("parent", "OS")
    /\ UNCHANGED <<snapshot_layout, deleters, fds, closes, pipe, pipe_writes,
                   outcome, child_result, loaded, rc, buf, exited, os_forks,
                   pid>>
    /\ OutsideFork

(* select() on pipefd[0] returns 0 after the timeout, or 1 when the pipe   *)
(* is readable: it holds data or is at end of file.                        *)
ParentSelect ==
    /\ fpc["parent"] = "select"
    /\ Step("parent", <<"select">>)
    /\ \/ /\ SelectTimesOut
          /\ wait_result' = "timeout"
          /\ Leave("parent", "-1")
          /\ SetErrno("parent", "EFAULT")
       \/ /\ pipe # <<>> \/ EndOfFile
          /\ wait_result' = "ready"
          /\ Goto("parent", "read")
          /\ UNCHANGED ferrno
    /\ UNCHANGED <<snapshot_layout, deleters, fds, closes, pipe, pipe_writes,
                   outcome, child_result, loaded, rc, buf, exited, os_forks,
                   pid>>
    /\ OutsideFork

ResultMatchesAnything(b) == TRUE

(* strncmp(buf, "Child fork succeeded", sizeof(buf)) == 0. *)
ResultMatches(b) == b = kChildSucceeded

(* rc = read(pipefd[0], buf, sizeof(buf)): rc < 0 on an error, 0 at end of *)
(* file, else one string of the child (all are shorter than buf); errno is *)
(* written by the failed read only.                                        *)
ParentRead ==
    /\ fpc["parent"] = "read"
    /\ Step("parent", <<"read">>)
    /\ \/ /\ rc' = "error"
          /\ Leave("parent", "-1")
          /\ SetErrno("parent", "OS")
          /\ UNCHANGED <<pipe, buf>>
       \/ /\ pipe = <<>>
          /\ rc' = "eof"
          /\ Leave("parent", "-1")
          /\ UNCHANGED <<ferrno, pipe, buf>>
       \/ /\ pipe # <<>>
          /\ rc' = "data"
          /\ buf' = Head(pipe)
          /\ pipe' = Tail(pipe)
          /\ Leave("parent", IF ResultMatches(Head(pipe)) THEN pid["parent"]
                                                          ELSE "-1")
          /\ UNCHANGED ferrno
    /\ UNCHANGED <<snapshot_layout, deleters, fds, closes, pipe_writes,
                   outcome, child_result, loaded, wait_result, exited, os_forks,
                   pid>>
    /\ OutsideFork

ForkInit ==
    /\ LifecycleIdle
    /\ SignalIdle
    /\ CallIdle
    /\ KeyIdle
    /\ TransmitIdle
    /\ BridgeIdle
    /\ restore_snapshot \in BOOLEAN
    /\ snapshot_layout = [c \in Categories |-> 0]
    /\ deleters = FALSE
    /\ fpc = [p \in Procs |-> IF p = "parent" THEN "start" ELSE "absent"]
    /\ pid = [p \in Procs |-> "none"]
    /\ fret = [p \in Procs |-> "none"]
    /\ ferrno = [p \in Procs |-> "0"]
    /\ fds = [p \in Procs |-> [f \in FdNames |-> "none"]]
    /\ closes = [p \in Procs |-> [f \in FdNames |-> 0]]
    /\ freed = [p \in Procs |-> [b \in Buffers |-> 0]]
    /\ pipe = <<>>
    /\ pipe_writes = 0
    /\ steps = [p \in Procs |-> <<>>]
    /\ outcome = [p \in Procs |->
                     [s \in {"transfer", "restore", "self_socket", "peer_socket"}
                         |-> "none"]]
    /\ child_result = "none"
    /\ loaded = [base |-> TRUE, size |-> TRUE]
    /\ wait_result = "none"
    /\ rc = "none"
    /\ buf = "none"
    /\ exited = FALSE
    /\ os_forks = 0

ParentNext ==
    \/ PlainFork
    \/ PlainReturn("parent")
    \/ TakeSnapshot
    \/ GetLoadConfig
    \/ SocketPair
    \/ Pipe
    \/ OsFork
    \/ ParentClosePipe
    \/ ParentKeyTransfer
    \/ ParentSelect
    \/ ParentRead

(* A failed select() is a step of the parent nothing obliges to happen.    *)
ParentInterrupted == ParentSelectError

ChildNext ==
    \/ PlainReturn("child")
    \/ ChildClosePipe
    \/ ChildLoadEnclave
    \/ ChildKeyTransfer
    \/ ChildRestore
    \/ ChildWrite

ForkNext ==
    \/ ParentNext
    \/ ParentInterrupted
    \/ ChildNext
    \/ ChildExit

all_vars == <<vars, others>>

SpecFork == ForkInit /\ [][ForkNext]_all_vars

(* The scheduler runs a process that can take a step, and select() ends    *)
(* by itself when its timeout expires; the termination of the child is not *)
(* forced.                                                                 *)
SpecForkFair == SpecFork /\ WF_all_vars(ParentNext) /\ WF_all_vars(ChildNext)

(* ====================================================================== *)
(* Properties.                                                             *)

InVass(t) == pc[t] \in VassSites /\ lk[t] \in {"held", "ok"}

Returned(t, o) == pc[t] = "done" /\ op[t] = o

(* C1: VerifyAndSetState is atomic.  While a thread is between taking the *)
(* mutex and the assignment it is the holder of the mutex, and once it has *)
(* compared equal the state is still the expected one when it assigns; a   *)
(* call that compared unequal returned FAILED_PRECONDITION and left the    *)
(* state as it saw it; every write made by VerifyAndSetState went from the *)
(* expected state to the new state, and its caller went on.                *)
C1_VerifyAndSetStateAtomic ==
    /\ \A t \in Threads : InVass(t) => mutex = t
    /\ \A t \in Threads :
         lk[t] = "ok" => enclave_state = VassExpected(pc[t])
    /\ \A t \in Threads :
         /\ Returned(t, "init") /\ status[t] = "FAILED_PRECONDITION" =>
              seen[t] # kUninitialized /\ post[t] = seen[t]
         /\ Returned(t, "fini") /\ status[t] = "FAILED_PRECONDITION" =>
              seen[t] # kRunning /\ post[t] = seen[t]
         /\ pc[t] = "init_internal" => seen[t] = kUninitialized
         /\ pc[t] = "fini_user" => seen[t] = kRunning
    /\ last_write.at = "init_vass" =>
         last_write.from = kUninitialized /\ last_write.to = kInternalInitializing
    /\ last_write.at = "internal_vass" =>
         last_write.from = kInternalInitializing /\ last_write.to = kUserInitializing
    /\ last_write.at = "fini_vass" =>
         last_write.from = kRunning /\ last_write.to = kFinalizing

(* A refused VerifyAndSetState has returned while another thread is       *)
(* between its comparison and its assignment.                              *)
C1_Witness ==
    \E t, u \in Threads :
        /\ Returned(t, "init") /\ status[t] = "FAILED_PRECONDITION"
        /\ lk[u] = "ok" /\ pc[u] = "fini_vass"

IsNextStep(from, to) == to = from + 1

IsInitUnwind(from, to) ==
    from \in {kInternalInitializing, kUserInitializing} /\ to = kUninitialized

C3_FailedInitializeUnwinds ==
    \A t \in Threads :
        Returned(t, "init") /\ seen[t] = kUninitialized /\ user[t] # "OK" =>
            /\ post[t] = kUninitialized
            /\ post[t] = VassExpected("init_vass")
            /\ user[t] = "ERROR"
            /\ status[t] = "USER_ERROR"
            /\ ret[t] = 0

(* An Initialize has failed and returned, and a later Initialize has been *)
(* admitted.                                                               *)
C3_Witness ==
    \E t, u \in Threads :
        /\ Returned(t, "init") /\ user[t] = "ERROR" /\ post[t] = kUninitialized
        /\ op[u] = "init" /\ pc[u] = "init_user"

(* C4: an Initialize with a parseable config that finds a state other     *)
(* than Uninitialized returns FAILED_PRECONDITION, has not run the user's  *)
(* initialization logic and has left the state as it found it.             *)
C4_InitializeRefusedUnlessUninitialized ==
    \A t \in Threads :
        op[t] = "init" /\ seen[t] \notin {NoState, kUninitialized} =>
            /\ pc[t] = "done"
            /\ status[t] = "FAILED_PRECONDITION"
            /\ user[t] = "none"
            /\ post[t] = seen[t]

(* A second Initialize after a successful one has been refused. *)
C4_Witness ==
    \E t \in Threads :
        /\ Returned(t, "init") /\ seen[t] = kRunning
        /\ enclave_state = kRunning
        /\ last_write.at = "init_set_running"

(* C5: in an admitted Finalize the state has been set to Finalizing       *)
(* before the user's finalization logic runs (so it is Finalizing or       *)
(* later while it runs), and when Finalize returns the state is Finalized  *)
(* and the status returned is the one of the finalization logic, OK or     *)
(* error.                                                                  *)
C5_FinalizeAlwaysFinalizes ==
    \A t \in Threads :
        /\ op[t] = "fini" /\ pc[t] \in {"fini_user", "fini_set"} =>
             seen[t] = kRunning /\ enclave_state >= kFinalizing
        /\ op[t] = "fini" /\ user[t] # "none" => seen[t] = kRunning
        /\ Returned(t, "fini") /\ seen[t] = kRunning =>
             /\ post[t] = kFinalized
             /\ enclave_state = kFinalized
             /\ user[t] \in {"OK", "ERROR"}
             /\ status[t] = (IF user[t] = "OK" THEN "OK" ELSE "USER_ERROR")

(* A Finalize whose finalization logic failed has returned. *)
C5_Witness ==
    \E t \in Threads :
        /\ Returned(t, "fini") /\ user[t] = "ERROR"
        /\ last_write.by = "fini" /\ last_write.to = kFinalized

(* C6: a Finalize with a parseable input that finds a state other than    *)
(* Running returns FAILED_PRECONDITION, has not run the user's             *)
(* finalization logic and has left the state as it found it; the user's    *)
(* finalization logic runs at most once.                                   *)
C6_FinalizeRefusedUnlessRunning ==
    /\ \A t \in Threads :
         op[t] = "fini" /\ seen[t] \notin {NoState, kRunning} =>
             /\ pc[t] = "done"
             /\ status[t] = "FAILED_PRECONDITION"
             /\ user[t] = "none"
             /\ post[t] = seen[t]
    /\ fini_calls <= 1

(* A Finalize before any Initialize and a Finalize after a completed      *)
(* Finalize have both been refused.                                        *)
C6_Witness ==
    \E t, u \in Threads :
        /\ Returned(t, "fini") /\ seen[t] = kFinalized /\ fini_calls = 1
        /\ Returned(u, "fini") /\ seen[u] = kUninitialized

(* C7: a Run that finds a state other than Running returns                 *)
(* FAILED_PRECONDITION without running the user's run logic, the run       *)
(* logic runs only for a call that found Running, and no write of the      *)
(* lifecycle state is made by Run.                                         *)
C7_RunChecksAndNeverWritesState ==
    /\ \A t \in Threads :
         /\ op[t] = "run" /\ seen[t] \notin {NoState, kRunning} =>
              /\ pc[t] = "done"
              /\ status[t] = "FAILED_PRECONDITION"
              /\ user[t] = "none"
         /\ op[t] = "run" /\ (user[t] # "none" \/ pc[t] = "run_user") =>
              seen[t] = kRunning
    /\ last_write.by # "run"

(* A Run has been refused in state Finalizing, while another thread is in *)
(* the user's finalization logic.                                          *)
C7_Witness ==
    \E t, u \in Threads :
        /\ Returned(t, "run") /\ seen[t] = kFinalizing
        /\ status[t] = "FAILED_PRECONDITION"
        /\ pc[u] = "fini_user" /\ enclave_state = kFinalizing

(* C8: DeliverSignal reaches the signal handler only if the state it read *)
(* is Running or Finalizing; having read any other state it returns 2 and  *)
(* HandleSignal is not called.                                             *)
C8_SignalOnlyWhileRunningOrFinalizing ==
    \A t \in Threads :
        /\ op[t] = "signal" /\ seen[t] \notin {NoState, kRunning, kFinalizing} =>
             /\ pc[t] = "done"
             /\ ret[t] = 2
             /\ user[t] = "none"
        /\ op[t] = "signal" /\ (user[t] # "none" \/ pc[t] = "signal_deliver") =>
             seen[t] \in {kRunning, kFinalizing}

(* A signal delivered after finalization has been refused with 2, and a   *)
(* signal delivered before initialization too.                             *)
C8_Witness ==
    \E t, u \in Threads :
        /\ Returned(t, "signal") /\ seen[t] = kFinalized /\ ret[t] = 2
        /\ Returned(u, "signal") /\ seen[u] = kUninitialized /\ ret[u] = 2

(* C9: a delivered signal whose number is in the enclave's signal mask    *)
(* does not reach the handler and returns -1, which is neither the         *)
(* wrong-state code nor success.                                           *)
C9_BlockedSignalNotHandled ==
    \A t \in Threads :
        op[t] = "signal" /\ masked[t] =>
            /\ pc[t] = "done"
            /\ user[t] = "none"
            /\ ret[t] = -1
            /\ ret[t] \notin {kSignalWrongState, kSignalOk, kSignalFailed}

(* A blocked signal has been refused while the enclave is running. *)
C9_Witness ==
    \E t \in Threads :
        /\ Returned(t, "signal") /\ masked[t] /\ ret[t] = -1
        /\ seen[t] = kRunning

(* C10: when the user logic called by an entry handler throws, the        *)
(* handler neither returns to its caller nor lets the exception out: the   *)
(* process is aborted.                                                     *)
C10_ThrowAborts ==
    \A t \in Threads :
        /\ user[t] = "THROW" => aborted /\ pc[t] = "aborted"
        /\ pc[t] # "escaped"
        /\ aborted => \E u \in Threads : user[u] = "THROW" /\ pc[u] = "aborted"

(* The user's signal handler threw and the process was aborted while      *)
(* another thread was inside the user's run logic.                         *)
C10_Witness ==
    \E t, u \in Threads :
        /\ op[t] = "signal" /\ user[t] = "THROW" /\ aborted
        /\ pc[u] = "run_user"

(* ---------------------------------------------------------------------- *)
(* Host signals, asylo/platform/arch/sgx/untrusted/ocalls.cc:              *)
(* ocall_enc_untrusted_register_signal_handler and the functions it        *)
(* installs with sigaction().  EnclaveSignalDispatcher is not part of      *)
(* these sources: its map from signum to the registered client stands for  *)
(* it.  A handler descriptor is that of simulation mode (it carries the    *)
(* enclave's sigaction function) or of hardware mode (it carries none),    *)
(* or the pointer to it is null; the function an enclave passes is named   *)
(* by the enclave.                                                         *)

HandlerKinds == {"simulation", "hardware", "null"}

(* What handler->flags does when handler is null: the read of address 0    *)
(* ends the process, or the build reads some value and goes on.            *)
NullDereference == {"fault", "value"}

(* asylo::ToBridgeSignal: the bridge number of a host signal, -1 if none.  *)
ToBridgeSignal(s) ==
    IF \E b \in DOMAIN BridgeSignalTable : BridgeSignalTable[b] = s
    THEN CHOOSE b \in DOMAIN BridgeSignalTable : BridgeSignalTable[b] = s
    ELSE -1

(* EnclaveSignalDispatcher::RegisterSignal(signum, client) returns the     *)
(* client another enclave had registered for signum, if any.               *)
RegisterSignal(signum, name) ==
    IF signal_to_client[signum] \notin {"none", name}
    THEN signal_to_client[signum]
    ELSE "none"

(* newact.sa_sigaction: !handler || !handler->sigaction is hardware mode. *)
SaSigaction(kind) ==
    IF kind \in {"hardware", "null"} THEN "EnterEnclaveAndHandleSignal"
                                      ELSE "HandleSignalInSim"

(* newact.sa_flags = FromBridgeSignalFlags(handler->flags) reads through   *)
(* handler, under no test of it: a null handler is dereferenced.           *)
FlagsReadFaults(kind) == kind = "null"

(* The ocall.  The registration with the dispatcher and the assignment of  *)
(* the static function pointer precede the read of handler->flags; the     *)
(* call of sigaction follows it.                                           *)
RegisterSignalHandler(bridge_signum, kind, name) ==
    LET signum == FromBridgeSignal(bridge_signum)
        called == [bridge_signum |-> bridge_signum, name |-> name,
                   old_client |-> "none", warned |-> FALSE, result |-> -1,
                   before |-> signal_to_client,
                   kind |-> kind, completed |-> TRUE, sa_siginfo |-> FALSE]
    IN  IF signum < 0
        THEN /\ last_reg' = called
             /\ UNCHANGED <<signal_to_client, handle_signal_inside_enclave,
                            sa_sigaction, reg_ok, reg_failed>>
        ELSE LET old_client == RegisterSignal(signum, name)
                 entered == [called EXCEPT !.old_client = old_client,
                                           !.warned = old_client # "none"]
             IN  /\ signal_to_client' = [signal_to_client EXCEPT ![signum] = name]
                 /\ handle_signal_inside_enclave' =
                       IF kind = "simulation" THEN name
                                              ELSE handle_signal_inside_enclave
                 /\ \E deref \in IF FlagsReadFaults(kind) THEN NullDereference
                                                          ELSE {"value"} :
                       IF deref = "fault"
                       THEN /\ last_reg' = [entered EXCEPT !.completed = FALSE]
                            /\ UNCHANGED <<sa_sigaction, reg_ok, reg_failed>>
                       ELSE \E result \in {0, -1} :
                            /\ last_reg' = [entered EXCEPT !.result = result,
                                                           !.sa_siginfo = TRUE]
                            /\ IF result = 0
                               THEN /\ sa_sigaction' = [sa_sigaction EXCEPT
                                                      ![signum] = SaSigaction(kind)]
                                    /\ reg_ok' = [reg_ok EXCEPT ![signum] = name]
                                    /\ UNCHANGED reg_failed
                               ELSE /\ reg_failed' = reg_failed \cup {signum}
                                    /\ UNCHANGED <<sa_sigaction, reg_ok>>

(* The process runs: no registration has ended it. *)
ProcessAlive == last_reg.completed

RegisterSignalHandlerCall ==
    /\ ProcessAlive
    /\ \E b \in BridgeSignums, kind \in HandlerKinds, name \in EnclaveNames :
          RegisterSignalHandler(b, kind, name)
    /\ arrival' = NoArrival
    /\ UNCHANGED tcs_active
    /\ UNCHANGED <<vars, fork_vars, call_vars, key_vars, transmit_vars, bridge_vars>>

(* What the arrival of signum did when nothing was invoked or entered.     *)
Arrived(signum) ==
    [signum |-> signum, handler |-> sa_sigaction[signum],
     client |-> signal_to_client[signum], invoked |-> "nullptr",
     bridge_signum |-> 0, direct |-> 0, entries |-> 0, entered |-> "none",
     registered |-> reg_ok[signum], clean |-> reg_failed = {}]

(* TranslateToBridgeAndHandleSignal: the function pointer is called with   *)
(* the bridge number of the signal, if there is one and a pointer is set.  *)
TranslateToBridgeAndHandleSignal(signum) ==
    IF ToBridgeSignal(signum) < 0 \/ handle_signal_inside_enclave = "nullptr"
    THEN Arrived(signum)
    ELSE [Arrived(signum) EXCEPT !.invoked = handle_signal_inside_enclave,
                                 !.bridge_signum = ToBridgeSignal(signum),
                                 !.direct = 1]

(* EnclaveSignalDispatcher::EnterEnclaveAndHandleSignal: one entry into    *)
(* the enclave registered for signum.                                      *)
EnterEnclaveAndHandleSignal(signum) ==
    IF signal_to_client[signum] = "none"
    THEN Arrived(signum)
    ELSE [Arrived(signum) EXCEPT !.entries = 1,
                                 !.entered = signal_to_client[signum]]

DirectWhenTcsInactive(client) == ~tcs_active[client]

(* client->IsTcsActive() chooses the direct call. *)
DirectWhenTcsActive(client) == tcs_active[client]

HandleSignalInSim(signum) ==
    IF signal_to_client[signum] = "none"
    THEN Arrived(signum)
    ELSE IF DirectWhenTcsActive(signal_to_client[signum])
         THEN TranslateToBridgeAndHandleSignal(signum)
         ELSE EnterEnclaveAndHandleSignal(signum)

(* A host signal arrives for which sigaction installed a function. *)
HostSignal ==
    /\ ProcessAlive
    /\ \E signum \in EnclaveSignums :
          /\ sa_sigaction[signum] # "SIG_DFL"
          /\ arrival' = IF sa_sigaction[signum] = "HandleSignalInSim"
                        THEN HandleSignalInSim(signum)
                        ELSE EnterEnclaveAndHandleSignal(signum)
    /\ last_reg' = NoRegistration
    /\ UNCHANGED <<signal_to_client, handle_signal_inside_enclave, sa_sigaction,
                   tcs_active, reg_ok, reg_failed>>
    /\ UNCHANGED <<vars, fork_vars, call_vars, key_vars, transmit_vars, bridge_vars>>

(* A thread enters or leaves an enclave. *)
TcsChange ==
    /\ ProcessAlive
    /\ \E e \in EnclaveNames : tcs_active' = [tcs_active EXCEPT ![e] = ~@]
    /\ last_reg' = NoRegistration
    /\ arrival' = NoArrival
    /\ UNCHANGED <<signal_to_client, handle_signal_inside_enclave, sa_sigaction,
                   reg_ok, reg_failed>>
    /\ UNCHANGED <<vars, fork_vars, call_vars, key_vars, transmit_vars, bridge_vars>>

(* An enclave is destroyed: the dispatcher forgets its registrations.      *)
DeregisterAllSignalsForClient ==
    /\ ProcessAlive
    /\ \E e \in EnclaveNames :
          /\ \E s \in EnclaveSignums : signal_to_client[s] = e
          /\ signal_to_client' = [s \in EnclaveSignums |->
                IF signal_to_client[s] = e THEN "none" ELSE signal_to_client[s]]
          /\ reg_ok' = [s \in EnclaveSignums |->
                IF signal_to_client[s] = e THEN "none" ELSE reg_ok[s]]
    /\ last_reg' = NoRegistration
    /\ arrival' = NoArrival
    /\ UNCHANGED <<handle_signal_inside_enclave, sa_sigaction, tcs_active,
                   reg_failed>>
    /\ UNCHANGED <<vars, fork_vars, call_vars, key_vars, transmit_vars, bridge_vars>>

SignalInit ==
    /\ LifecycleIdle /\ ForkIdle /\ SignalStart /\ CallIdle /\ KeyIdle
    /\ TransmitIdle /\ BridgeIdle

SignalNext ==
    \/ RegisterSignalHandlerCall
    \/ HostSignal
    \/ TcsChange
    \/ DeregisterAllSignalsForClient

SpecSignal == SignalInit /\ [][SignalNext]_all_vars

(* ---------------------------------------------------------------------- *)
(* Properties of the fork ocall (SpecFork).                                *)

ForkReturned(p) == fpc[p] = "returned"

(* The OS fork of a snapshot fork succeeded: the child exists. *)
AfterOsFork == restore_snapshot /\ pid["parent"] = "pid"

Did(p, name) == \E i \in DOMAIN steps[p] : steps[p][i] = name

(* C11: with restore_snapshot = true the parent returns the child's pid    *)
(* only after the child's key transfer and EnterAndRestore succeeded and   *)
(* the parent read exactly the success string from the pipe; it never      *)
(* returns success when the child's key transfer or restore failed.        *)
C11_ParentSucceedsOnlyAfterChildRestored ==
    (restore_snapshot /\ ForkReturned("parent") /\ fret["parent"] # "-1")
        => /\ fret["parent"] = "pid"
           /\ outcome["child"]["transfer"] = "OK"
           /\ outcome["child"]["restore"] = "OK"
           /\ Did("child", "EnterAndRestore")
           /\ rc = "data"
           /\ buf = kChildSucceeded

C11_Witness ==
    /\ restore_snapshot
    /\ ForkReturned("parent")
    /\ fret["parent"] = "pid"
    /\ buf = kChildSucceeded
    /\ outcome["child"]["restore"] = "OK"

(* The child has returned from the fork ocall without a write to the pipe. *)
ChildNeverWrites == AfterOsFork /\ ForkReturned("child") /\ pipe_writes = 0

C13_FailureAfterForkSetsErrno ==
    \A p \in Procs :
        (AfterOsFork /\ ForkReturned(p) /\ fret[p] # pid[p])
            => fret[p] = "-1" /\ ferrno[p] # "0"

(* C14: every ciphertext and nonce buffer of every entry of every category *)
(* of the snapshot layout is freed exactly once in each process that       *)
(* returns from the fork ocall, on every return path taken after           *)
(* EnterAndTakeSnapshot has returned, whether it succeeded or failed.      *)
C14_BuffersFreedOncePerProcess ==
    \A p \in Procs :
        (restore_snapshot /\ ForkReturned(p))
            => \A b \in Buffers : InLayout(b) => freed[p][b] = 1

(* C15: in each of the parent and the child, when the fork ocall returns,  *)
(* on any path, each of the two descriptors of the socket pair has been    *)
(* closed exactly once in that process.                                    *)
C15_SocketsClosedOncePerProcess ==
    \A p \in Procs :
        (ForkReturned(p) /\ fds[p]["socket_pair0"] # "none")
            => closes[p]["socket_pair0"] = 1 /\ closes[p]["socket_pair1"] = 1

(* C16: the child verifies that both the base address and the size of the  *)
(* enclave it loaded equal the parent's; if either differs it returns -1   *)
(* and performs neither the key transfer nor the restore.                  *)
C16_ChildVerifiesAddressAndSize ==
    (Did("child", "GetBaseAddress") /\ ~SameAddressSpaceAndSize(loaded))
        => /\ ForkReturned("child")
           /\ fret["child"] = "-1"
           /\ ~Did("child", "EnterAndTransferSecureSnapshotKey")
           /\ ~Did("child", "EnterAndRestore")

FailedForkStep(t) ==
    /\ op[t] \in {"snapshot", "transfer", "restore"}
    /\ pc[t] # "done"
    /\ pc'[t] = "done"
    /\ user'[t] = "ERROR"

Receiver == IF arrival.direct = 1 THEN arrival.invoked ELSE arrival.entered

Delivered == arrival.direct = 1 \/ arrival.entries = 1

(* C19: after registrations that all succeeded, the enclave that receives  *)
(* a host signal is the one named in the latest registration of its        *)
(* number; a registration replaces the enclave registered for its number,  *)
(* logs the overwrite warning exactly when that was a different enclave,   *)
(* and leaves the other signal numbers as they were.                       *)
C19_LastRegistrationReceives ==
    /\ (last_reg.name # "none" /\ last_reg.result = 0)
          => LET signum == FromBridgeSignal(last_reg.bridge_signum)
             IN  /\ signal_to_client =
                        [last_reg.before EXCEPT ![signum] = last_reg.name]
                 /\ last_reg.warned
                        <=> last_reg.before[signum] \notin {"none", last_reg.name}
    /\ (arrival.clean /\ Delivered) => Receiver = arrival.registered

StartupSelectors == <<"kSelectorAsyloInit", "kSelectorAsyloRun",
                      "kSelectorAsyloFini", "kSelectorAsyloDeliverSignal">>

(* Entry selectors: those four and one of a handler of the application. *)
EntrySelectors == {StartupSelectors[i] : i \in DOMAIN StartupSelectors}
                      \cup {"kSelectorUser"}

(* A selector nobody registers. *)
kSelectorUnknown == "kSelectorUnknown"

(* The non-syscall host calls: each has its exit handler selector.        *)
HostCalls == {"isatty", "usleep", "sysconf", "realloc", "sleep", "sendmsg",
              "recvmsg", "getsockname", "accept", "getpeername", "recvfrom",
              "raise"}

(* Selectors that have an exit handler on the untrusted side. *)
ExitSelectors == HostCalls \cup {"kSelectorUser"}

StatusCodes == {"OK", "INVALID_ARGUMENT", "INTERNAL"}

HostResults == {"-1", "0", "1"}

kLinuxErrnos == {"kLinux_EAGAIN", "kLinux_ENOMEM"}

(* The errno of the enclave for an errno of the host. *)
FromkLinuxErrorNumber(e) ==
    CASE e = "kLinux_EAGAIN" -> "EAGAIN"
      [] e = "kLinux_ENOMEM" -> "ENOMEM"
      [] OTHER -> "EUNKNOWN"

(* entry_call when the last step was no registration and no dispatch of   *)
(* an entry selector.                                                      *)
NoEntryCall ==
    [kind |-> "none", selector |-> "none", before |-> "none", ok |-> TRUE,
     invoked |-> "none"]

(* MessageWriter: an extent holds a value of some number of bytes. *)
IntExtent(v) == [val |-> v, bytes |-> 4]
DataExtent == [val |-> "data", bytes |-> 16]

(* MessageWriter::MessageSize: each extent is serialized as its 64-bit    *)
(* length and its bytes.                                                   *)
RECURSIVE MessageSize(_)
MessageSize(m) ==
    IF m = <<>> THEN 0 ELSE 8 + Head(m).bytes + MessageSize(Tail(m))

(* Extents the host call reads from the output of its handler: the        *)
(* result, the errno of the host, and what the call returns by pointer.   *)
ExpectedExtents(call) ==
    CASE call = "sleep" -> 1
      [] call \in {"getsockname", "accept", "getpeername"} -> 3
      [] call = "recvfrom" -> 4
      [] call = "recvmsg" -> 5
      [] OTHER -> 2

(* The calls that compare output.size() with the expected number. *)
SizeChecked(call) == call \in {"getsockname", "accept", "getpeername", "recvfrom"}

(* A message of n extents carrying result r and host errno e. *)
HostMessage(r, e, n) ==
    [i \in 1..n |-> IF i = 1 THEN IntExtent(r)
                    ELSE IF i = 2 THEN IntExtent(e) ELSE DataExtent]

(* RegisterEntryHandler: a selector that has a handler is refused, and a  *)
(* registration can fail for another reason.                               *)
RegistrationOk(sel, table, other_failure) ==
    table[sel] = "none" /\ ~other_failure

(* The position of asylo_enclave_init after the registration of sel. *)
AfterRegistration(sel) ==
    IF sel = StartupSelectors[Len(StartupSelectors)] THEN "done"
    ELSE StartupSelectors[(CHOOSE i \in DOMAIN StartupSelectors :
                               StartupSelectors[i] = sel) + 1]

AbortOnFailedRegistrationNever(ok) == FALSE

(* asylo_enclave_init calls BestEffortAbort iff the registration is not   *)
(* ok.                                                                     *)
AbortOnFailedRegistration(ok) == ~ok

(* One of the four registrations of asylo_enclave_init. *)
AsyloEnclaveInitStep ==
    /\ startup \in EntrySelectors
    /\ \E other_failure \in BOOLEAN :
         LET ok == RegistrationOk(startup, entry_table, other_failure)
         IN  /\ entry_table' = IF ok THEN [entry_table EXCEPT ![startup] = "asylo"]
                               ELSE entry_table
             /\ entry_call' = [kind |-> "register", selector |-> startup,
                               before |-> entry_table[startup], ok |-> ok,
                               invoked |-> "none"]
             /\ startup' = IF AbortOnFailedRegistration(ok) THEN "aborted"
                           ELSE AfterRegistration(startup)
    /\ UNCHANGED <<hc_call, hc_pc, hc_selector, hc_size, handler_out,
                   sgx_params, hc_status, hc_reads, hc_host, errno,
                   errno_before, errno_writes, hc_ret>>
    /\ UNCHANGED <<vars, fork_vars, signal_vars, key_vars, transmit_vars, bridge_vars>>

(* The dispatch of an entry selector: the handler of the selector is      *)
(* invoked, and a selector without one is an error.                        *)
EnterDispatch ==
    /\ startup = "done"
    /\ hc_pc = "idle"
    /\ \E sel \in EntrySelectors \cup {kSelectorUnknown} :
         LET found == sel \in EntrySelectors /\ entry_table[sel] # "none"
         IN  entry_call' = [kind |-> "dispatch", selector |-> sel,
                            before |-> IF sel \in EntrySelectors
                                       THEN entry_table[sel] ELSE "none",
                            ok |-> found,
                            invoked |-> IF found THEN entry_table[sel]
                                        ELSE "none"]
    /\ UNCHANGED <<entry_table, startup, hc_call, hc_pc, hc_selector, hc_size,
                   handler_out, sgx_params, hc_status, hc_reads, hc_host,
                   errno, errno_before, errno_writes, hc_ret>>
    /\ UNCHANGED <<vars, fork_vars, signal_vars, key_vars, transmit_vars, bridge_vars>>

(* Arguments of a host call, by what the checks before the dispatch make  *)
(* of them.                                                                *)
ArgKinds(call) ==
    CASE call \in {"sysconf", "recvfrom", "raise"} -> {"ok", "untranslatable"}
      [] call \in {"getsockname", "getpeername"} -> {"ok", "null", "badlen"}
      [] OTHER -> {"ok"}

(* The errno of a call refused before the dispatch, "none" when it goes   *)
(* on to the dispatch.                                                     *)
Refused(call, arg) ==
    CASE arg = "untranslatable" -> "EINVAL"
      [] arg = "null" -> "EFAULT"
      [] arg = "badlen" -> "EINVAL"
      [] OTHER -> "none"

(* Entry of enc_untrusted_<call>: the checks before the dispatch. *)
EncUntrustedCall ==
    /\ startup = "done"
    /\ hc_pc = "idle"
    /\ \E call \in HostCalls, size \in {0, 1} :
         \E arg \in ArgKinds(call) :
           /\ call # "realloc" => size = 0
           /\ hc_call' = call
           /\ hc_size' = size
           /\ errno_before' = errno
           /\ IF Refused(call, arg) # "none"
              THEN /\ errno' = Refused(call, arg)
                   /\ errno_writes' = 1
                   /\ hc_ret' = "-1"
                   /\ hc_pc' = "returned"
                   /\ hc_selector' = "none"
              ELSE /\ hc_pc' = "dispatch"
                   /\ hc_selector' = call
                   /\ errno_writes' = 0
                   /\ hc_ret' = "none"
                   /\ UNCHANGED errno
    /\ entry_call' = NoEntryCall
    /\ handler_out' = [invoked |-> FALSE, code |-> "none", msg |-> <<>>]
    /\ sgx_params' = [output |-> "null", output_size |-> 0, data |-> <<>>]
    /\ hc_status' = "none"
    /\ hc_reads' = 0
    /\ hc_host' = [result |-> "none", klinux_errno |-> "none"]
    /\ UNCHANGED <<entry_table, startup>>
    /\ UNCHANGED <<vars, fork_vars, signal_vars, key_vars, transmit_vars, bridge_vars>>

(* An exit call that is no host call: a handler of the application, or a  *)
(* selector without a handler.                                             *)
UntrustedCall ==
    /\ startup = "done"
    /\ hc_pc = "idle"
    /\ \E sel \in {"kSelectorUser", kSelectorUnknown} :
         hc_selector' = sel
    /\ hc_call' = "exit_call"
    /\ hc_pc' = "dispatch"
    /\ hc_size' = 0
    /\ errno_before' = errno
    /\ errno_writes' = 0
    /\ hc_ret' = "none"
    /\ entry_call' = NoEntryCall
    /\ handler_out' = [invoked |-> FALSE, code |-> "none", msg |-> <<>>]
    /\ sgx_params' = [output |-> "null", output_size |-> 0, data |-> <<>>]
    /\ hc_status' = "none"
    /\ hc_reads' = 0
    /\ hc_host' = [result |-> "none", klinux_errno |-> "none"]
    /\ UNCHANGED <<entry_table, startup, errno>>
    /\ UNCHANGED <<vars, fork_vars, signal_vars, key_vars, transmit_vars, bridge_vars>>

(* What the exit handler of a selector can leave: its status code, the    *)
(* message it wrote, and the result and errno of the host operation the   *)
(* message carries.                                                        *)
HandlerOutcomes(sel) ==
    IF sel \in HostCalls
    THEN {[code |-> "OK", msg |-> HostMessage(r, e, n), result |-> r,
           klinux_errno |-> e] :
            r \in HostResults, e \in kLinuxErrnos,
            n \in IF SizeChecked(sel)
                  THEN {ExpectedExtents(sel) - 1, ExpectedExtents(sel)}
                  ELSE {ExpectedExtents(sel)}}
         \cup
         {[code |-> c, msg |-> m, result |-> "none", klinux_errno |-> "none"] :
            c \in StatusCodes \ {"OK"},
            m \in {<<>>, HostMessage("-1", "kLinux_EAGAIN", 2)}}
    ELSE {[code |-> c, msg |-> m, result |-> "none", klinux_errno |-> "none"] :
            c \in StatusCodes, m \in {<<>>, <<DataExtent>>}}

(* Client::ExitCallback: the handler of the selector runs and its status  *)
(* is returned; a selector without a handler is an error and no handler   *)
(* runs.                                                                   *)
ExitCallback(sel) ==
    IF sel \in ExitSelectors
    THEN {[invoked |-> TRUE, code |-> o.code, msg |-> o.msg,
           result |-> o.result, klinux_errno |-> o.klinux_errno] :
            o \in HandlerOutcomes(sel)}
    ELSE {[invoked |-> FALSE, code |-> "INVALID_ARGUMENT", msg |-> <<>>,
           result |-> "none", klinux_errno |-> "none"]}

PopulatesOutputWhenNonEmpty(code, size) == size > 0

(* ocall_dispatch_untrusted_call serializes the output iff the status is  *)
(* ok and the message has a size.                                          *)
PopulatesOutput(code, size) == code = "OK" /\ size > 0

(* ocall_dispatch_untrusted_call. *)
OcallDispatchUntrustedCall ==
    /\ hc_pc = "dispatch"
    /\ \E h \in ExitCallback(hc_selector) :
         /\ handler_out' = [invoked |-> h.invoked, code |-> h.code, msg |-> h.msg]
         /\ hc_host' = [result |-> h.result, klinux_errno |-> h.klinux_errno]
         /\ sgx_params' =
              IF PopulatesOutput(h.code, MessageSize(h.msg))
              THEN [output |-> "buffer", output_size |-> MessageSize(h.msg),
                    data |-> h.msg]
              ELSE [output |-> "null", output_size |-> 0, data |-> <<>>]
         /\ hc_status' = h.code
    /\ hc_pc' = "status"
    /\ UNCHANGED <<entry_table, startup, entry_call, hc_call, hc_selector,
                   hc_size, hc_reads, errno, errno_before, errno_writes, hc_ret>>
    /\ UNCHANGED <<vars, fork_vars, signal_vars, key_vars, transmit_vars, bridge_vars>>

HostFailedOnMinusOne(call, result, size) == result = "-1"

(* The result of the host operation for which the call writes errno. *)
HostFailed(call, result, size) ==
    CASE call = "isatty" -> result = "0"
      [] call = "realloc" -> result = "0" /\ size # 0
      [] call = "sleep" -> FALSE
      [] call = "raise" -> result # "0"
      [] OTHER -> result = "-1"

AbortsOnStatusNever(code) == FALSE

(* The host call aborts iff the status of the dispatcher is not ok. *)
AbortsOnStatus(code) == code # "OK"

(* Reads of the output message by a host call that got the result r. *)
Reads(call, failed) ==
    CASE call = "sleep" -> 1
      [] call \in {"isatty", "usleep", "sysconf", "realloc", "sendmsg"} ->
             IF failed THEN 2 ELSE 1
      [] call = "raise" -> 2
      [] OTHER -> IF failed THEN 2 ELSE ExpectedExtents(call)

(* enc_untrusted_<call> after the dispatcher has returned. *)
HostCallReturn ==
    /\ hc_pc = "status"
    /\ hc_call \in HostCalls
    /\ IF AbortsOnStatus(hc_status)
          \/ (SizeChecked(hc_call)
                /\ Len(sgx_params.data) # ExpectedExtents(hc_call))
       THEN /\ hc_pc' = "aborted"
            /\ UNCHANGED <<hc_reads, errno, errno_writes, hc_ret>>
       ELSE \E r \in HostResults, e \in kLinuxErrnos :
              /\ Len(sgx_params.data) >= 1 => r = sgx_params.data[1].val
              /\ Len(sgx_params.data) >= 2 => e = sgx_params.data[2].val
              /\ LET failed == HostFailed(hc_call, r, hc_size)
                 IN  /\ hc_reads' = Reads(hc_call, failed)
                     /\ errno' = IF failed THEN FromkLinuxErrorNumber(e)
                                 ELSE errno
                     /\ errno_writes' = IF failed THEN 1 ELSE 0
              /\ hc_ret' = r
              /\ hc_pc' = "returned"
    /\ UNCHANGED <<entry_table, startup, entry_call, hc_call, hc_selector,
                   hc_size, handler_out, sgx_params, hc_status, hc_host,
                   errno_before>>
    /\ UNCHANGED <<vars, fork_vars, signal_vars, key_vars, transmit_vars, bridge_vars>>

(* The return of an exit call that is no host call. *)
UntrustedCallReturn ==
    /\ hc_pc = "status"
    /\ hc_call = "exit_call"
    /\ hc_pc' = "returned"
    /\ hc_ret' = hc_status
    /\ UNCHANGED <<entry_table, startup, entry_call, hc_call, hc_selector,
                   hc_size, handler_out, sgx_params, hc_status, hc_reads,
                   hc_host, errno, errno_before, errno_writes>>
    /\ UNCHANGED <<vars, fork_vars, signal_vars, key_vars, transmit_vars, bridge_vars>>

(* The caller goes on after the call has returned. *)
CallDone ==
    /\ hc_pc = "returned"
    /\ hc_pc' = "idle"
    /\ hc_call' = "none"
    /\ hc_selector' = "none"
    /\ hc_size' = 0
    /\ handler_out' = [invoked |-> FALSE, code |-> "none", msg |-> <<>>]
    /\ sgx_params' = [output |-> "null", output_size |-> 0, data |-> <<>>]
    /\ hc_status' = "none"
    /\ hc_reads' = 0
    /\ hc_host' = [result |-> "none", klinux_errno |-> "none"]
    /\ errno_before' = errno
    /\ errno_writes' = 0
    /\ hc_ret' = "none"
    /\ entry_call' = NoEntryCall
    /\ UNCHANGED <<entry_table, startup, errno>>
    /\ UNCHANGED <<vars, fork_vars, signal_vars, key_vars, transmit_vars, bridge_vars>>

(* The enclave is loaded: asylo_enclave_init is about to run, and at most *)
(* one entry selector has a handler already.                               *)
CallInit ==
    /\ LifecycleIdle
    /\ ForkIdle
    /\ SignalIdle
    /\ KeyIdle
    /\ TransmitIdle
    /\ BridgeIdle
    /\ \E pre \in EntrySelectors \cup {"none"} :
         entry_table = [s \in EntrySelectors |->
                           IF s = pre THEN "platform" ELSE "none"]
    /\ startup = StartupSelectors[1]
    /\ entry_call = NoEntryCall
    /\ hc_call = "none"
    /\ hc_pc = "idle"
    /\ hc_selector = "none"
    /\ hc_size = 0
    /\ handler_out = [invoked |-> FALSE, code |-> "none", msg |-> <<>>]
    /\ sgx_params = [output |-> "null", output_size |-> 0, data |-> <<>>]
    /\ hc_status = "none"
    /\ hc_reads = 0
    /\ hc_host = [result |-> "none", klinux_errno |-> "none"]
    /\ errno \in {"0", "EINTR"}
    /\ errno_before = errno
    /\ errno_writes = 0
    /\ hc_ret = "none"

CallNext ==
    \/ AsyloEnclaveInitStep
    \/ EnterDispatch
    \/ EncUntrustedCall
    \/ UntrustedCall
    \/ OcallDispatchUntrustedCall
    \/ HostCallReturn
    \/ UntrustedCallReturn
    \/ CallDone

SpecCall == CallInit /\ [][CallNext]_all_vars

(* ---------------------------------------------------------------------- *)
(* Properties of the call dispatch (SpecCall).                             *)

(* A host call that has got the status of the dispatcher and acted on it. *)
ActedOnStatus ==
    hc_call \in HostCalls /\ hc_status # "none" /\ hc_pc \in {"returned", "aborted"}

(* C21: a non-syscall host call whose dispatcher returned a status that   *)
(* is not OK aborts the process: it returns no value, writes no errno and *)
(* reads nothing from the output message.                                  *)
C21_DispatcherFailureAborts ==
    (ActedOnStatus /\ hc_status # "OK") =>
        /\ hc_pc = "aborted"
        /\ hc_ret = "none"
        /\ errno_writes = 0
        /\ errno = errno_before
        /\ hc_reads = 0

C21_Witness ==
    /\ hc_call = "getsockname"
    /\ hc_status = "INTERNAL"
    /\ handler_out.msg # <<>>
    /\ hc_pc = "aborted"

(* The result of the host that is the failure value of the call. *)
IsFailureValue(call, result, size) ==
    \/ call = "isatty" /\ result = "0"
    \/ call \in {"usleep", "sysconf", "sendmsg", "recvmsg", "getsockname",
                 "accept", "getpeername", "recvfrom"} /\ result = "-1"
    \/ call = "realloc" /\ result = "0" /\ size # 0
    \/ call = "raise" /\ result # "0"

(* What a host call that returned did to errno, given the result and the  *)
(* errno of the host.                                                      *)
ErrnoFollowsHost ==
    /\ errno_writes = 1 <=> IsFailureValue(hc_call, hc_host.result, hc_size)
    /\ errno_writes = 1 => errno = FromkLinuxErrorNumber(hc_host.klinux_errno)
    /\ errno_writes = 0 => errno = errno_before

(* C22 as stated: every non-syscall host call that returns has written    *)
(* errno iff the result of the host is the failure value of the call, and *)
(* has written the translation of the errno of the host.                   *)
C22_ErrnoIffHostFailure ==
    (hc_call \in HostCalls /\ hc_pc = "returned") => ErrnoFollowsHost

(* C22 amended: a host call that reached the host and returns has written *)
(* errno iff the result of the host is the failure value of the call, the *)
(* value being the translation of the errno of the host, and has left     *)
(* errno alone otherwise; a call refused by the checks of its arguments   *)
(* before the dispatch returns -1 with errno EINVAL or EFAULT and no      *)
(* handler has run.                                                        *)
C22_ErrnoIffHostFailureOnceDispatched ==
    (hc_call \in HostCalls /\ hc_pc = "returned") =>
        IF hc_status = "OK"
        THEN ErrnoFollowsHost
        ELSE /\ hc_status = "none"
             /\ ~handler_out.invoked
             /\ hc_call \in {"sysconf", "getsockname", "getpeername",
                             "recvfrom", "raise"}
             /\ hc_ret = "-1"
             /\ errno_writes = 1
             /\ errno \in {"EINVAL", "EFAULT"}

C22_Witness ==
    /\ hc_call = "raise"
    /\ hc_pc = "returned"
    /\ hc_host = [result |-> "1", klinux_errno |-> "kLinux_ENOMEM"]
    /\ errno_before = "0"
    /\ errno = "ENOMEM"

(* C23: ocall_dispatch_untrusted_call returns the status code of the      *)
(* handler that ran; it hands back a buffer of the size of the serialized *)
(* output message iff that code is OK and the message is not empty, and   *)
(* a null output of size 0 otherwise.                                      *)
C23_DispatchReturnsHandlerStatus ==
    hc_pc = "status" =>
        /\ handler_out.invoked => hc_status = handler_out.code
        /\ IF handler_out.code = "OK" /\ handler_out.msg # <<>>
           THEN /\ sgx_params.output = "buffer"
                /\ sgx_params.output_size = MessageSize(handler_out.msg)
                /\ sgx_params.output_size > 0
                /\ sgx_params.data = handler_out.msg
           ELSE /\ sgx_params.output = "null"
                /\ sgx_params.output_size = 0

C23_Witness ==
    /\ hc_pc = "status"
    /\ hc_selector = "kSelectorUser"
    /\ handler_out.invoked
    /\ handler_out.code = "OK"
    /\ sgx_params.output = "buffer"
    /\ sgx_params.output_size = MessageSize(<<DataExtent>>)

(* C24: a selector has at most one handler: a registration of             *)
(* asylo_enclave_init for a selector that has one, or one that fails for  *)
(* another reason, aborts the process and leaves the handler as it was,   *)
(* and the dispatch of a selector without a handler is an error that      *)
(* invokes no handler.                                                     *)
C24_OneHandlerPerSelector ==
    /\ (entry_call.kind = "register"
          /\ (entry_call.before # "none" \/ ~entry_call.ok)) =>
           /\ startup = "aborted"
           /\ entry_table[entry_call.selector] = entry_call.before
    /\ (entry_call.kind = "dispatch" /\ entry_call.before = "none") =>
           /\ ~entry_call.ok
           /\ entry_call.invoked = "none"

C24_Witness ==
    /\ entry_call.kind = "register"
    /\ entry_call.selector = "kSelectorAsyloFini"
    /\ entry_call.before = "platform"
    /\ startup = "aborted"
    /\ entry_table["kSelectorAsyloFini"] = "platform"

(* ---------------------------------------------------------------------- *)
(* The ECDSA keys the tests of asylo/crypto/ecdsa_signing_key_test.h       *)
(* exercise. Bytes are numbers; a coordinate of a signature is a string    *)
(* of CoordinateBits bits.                                                 *)

(* Length of R and of S of a signature, the size of the curve order. *)
CoordinateBits == 2

(* The concrete key classes, and the class of fake_signing_key.h. *)
Impls == {"EcdsaP256", "EcdsaP384"}
kFake == "Fake"

Roles == {"SIGNING_KEY", "VERIFYING_KEY"}

Encodings == {"ASYMMETRIC_KEY_DER", "ASYMMETRIC_KEY_PEM",
              "UNKNOWN_ASYMMETRIC_KEY_ENCODING"}

SignatureSchemes == {"UNKNOWN_SIGNATURE_SCHEME", "ECDSA_P256_SHA256",
                     "ECDSA_P384_SHA384"}

(* GetSignatureScheme of a key class. *)
SchemeOf(impl) ==
    IF impl = "EcdsaP256" THEN "ECDSA_P256_SHA256" ELSE "ECDSA_P384_SHA384"

(* Private keys, and the public key of each. *)
Scalars == {1, 2}
PublicOf(d) == (3 * d) % 7
Points == {PublicOf(d) : d \in Scalars}
MaterialOf(role) == IF role = "SIGNING_KEY" THEN Scalars ELSE Points

Messages == {0, 1}
Nonces == 0..(2^CoordinateBits - 1)

(* The value of a failed StatusOr of a key. *)
NoKey == [impl |-> "none", role |-> "none", material |-> 0]

KeyObject(impl, role, material) ==
    [impl |-> impl, role |-> role, material |-> material]

(* DER: the structure of the role, the curve, the key. *)
RoleTag(role) == IF role = "SIGNING_KEY" THEN 4 ELSE 3
CurveOid(impl) == IF impl = "EcdsaP256" THEN 7 ELSE 34

SerializeToDer(key) ==
    <<RoleTag(key.role), CurveOid(key.impl), key.material>>

(* PEM: the DER bytes in another alphabet between two boundary lines. *)
PemEncode(b) == b + 65
PemDecodeRaw(b) == b
PemDecode(b) == b - 65

SerializeToPem(key) ==
    LET der == SerializeToDer(key)
    IN  <<45>> \o [i \in DOMAIN der |-> PemEncode(der[i])] \o <<45>>

(* The bytes bad_key_ of the fixtures. *)
BadKey == <<98, 97, 100>>

CreateFromDer(impl, role, bytes) ==
    IF /\ Len(bytes) = 3
       /\ bytes[1] = RoleTag(role)
       /\ bytes[2] = CurveOid(impl)
       /\ bytes[3] \in MaterialOf(role)
    THEN [code |-> "OK", key |-> KeyObject(impl, role, bytes[3])]
    ELSE [code |-> "INTERNAL", key |-> NoKey]

CreateFromPem(impl, role, bytes) ==
    IF Len(bytes) >= 2 /\ bytes[1] = 45 /\ bytes[Len(bytes)] = 45
    THEN CreateFromDer(impl, role,
                       [i \in 1..(Len(bytes) - 2) |-> PemDecode(bytes[i + 1])])
    ELSE [code |-> "INTERNAL", key |-> NoKey]

KeyProtoCheckTypeOnly(impl, role, proto) == proto.key_type = role

(* The key type and the signature scheme of a key proto are those of the  *)
(* key class.                                                              *)
KeyProtoCheck(impl, role, proto) ==
    proto.key_type = role /\ proto.signature_scheme = SchemeOf(impl)

CreateFromProto(impl, role, proto) ==
    IF ~KeyProtoCheck(impl, role, proto)
    THEN [code |-> "INVALID_ARGUMENT", key |-> NoKey]
    ELSE CASE proto.encoding = "ASYMMETRIC_KEY_DER" ->
                  CreateFromDer(impl, role, proto.key)
           [] proto.encoding = "ASYMMETRIC_KEY_PEM" ->
                  CreateFromPem(impl, role, proto.key)
           [] OTHER -> [code |-> "UNIMPLEMENTED", key |-> NoKey]

(* The verifying key of a signing key. *)
GetVerifyingKey(key) ==
    KeyObject(key.impl, "VERIFYING_KEY", PublicOf(key.material))

(* Bit strings and the numbers they write, most significant bit first. *)
BitStrings(n) == [1..n -> {0, 1}]

RECURSIVE Val(_)
Val(bits) ==
    IF bits = <<>> THEN 0
    ELSE 2 * Val(SubSeq(bits, 1, Len(bits) - 1)) + bits[Len(bits)]

Bits(v) == [i \in 1..CoordinateBits |-> (v \div 2^(CoordinateBits - i)) % 2]

(* The S that goes with R for a public key and a message: the signature   *)
(* scheme, without its arithmetic.                                         *)
Digest(q, m, r) == (q + m + Val(r)) % 2^CoordinateBits

EcdsaSign(d, m, k) ==
    [r |-> Bits(k), s |-> Bits(Digest(PublicOf(d), m, Bits(k)))]

EcdsaVerifyFirstBit(q, m, r, s) == s[1] = Bits(Digest(q, m, r))[1]

EcdsaVerify(q, m, r, s) == s = Bits(Digest(q, m, r))

(* Sign, to bytes: the DER of the two coordinates. *)
SignRaw(key, m, k) ==
    LET sig == EcdsaSign(key.material, m, k) IN <<1>> \o sig.r \o sig.s

(* Sign, to a Signature message. *)
SignPb(key, m, k) ==
    LET sig == EcdsaSign(key.material, m, k)
    IN  [signature_scheme |-> SchemeOf(key.impl), has_ecdsa |-> TRUE,
         r |-> sig.r, s |-> sig.s]

(* Verify of bytes. *)
VerifyRaw(key, m, sig) ==
    IF /\ Len(sig) = 1 + 2 * CoordinateBits
       /\ sig[1] = 1
       /\ EcdsaVerify(key.material, m,
                      SubSeq(sig, 2, 1 + CoordinateBits),
                      SubSeq(sig, 2 + CoordinateBits, 1 + 2 * CoordinateBits))
    THEN "OK"
    ELSE "VERIFICATION_FAILURE"

StructurallyValidAnyLength(key, sig) ==
    /\ sig.signature_scheme = SchemeOf(key.impl)
    /\ sig.has_ecdsa
    /\ sig.r # <<>> /\ sig.s # <<>>

(* The checks of a Signature message that come before the verification. *)
StructurallyValid(key, sig) ==
    /\ sig.signature_scheme = SchemeOf(key.impl)
    /\ sig.has_ecdsa
    /\ sig.r # <<>> /\ sig.s # <<>>
    /\ Len(sig.r) = CoordinateBits /\ Len(sig.s) = CoordinateBits

(* Verify of a Signature message: the code, and whether the signature     *)
(* got to the cryptographic check.                                         *)
VerifyPb(key, m, sig) ==
    IF ~StructurallyValid(key, sig)
    THEN [code |-> "INVALID_ARGUMENT", checked |-> FALSE]
    ELSE [code |-> IF EcdsaVerify(key.material, m, sig.r, sig.s)
                   THEN "OK" ELSE "VERIFICATION_FAILURE",
          checked |-> TRUE]

SameClassAlways(a, b) == TRUE

(* The other key is of the class of this one. *)
SameClass(a, b) == a.impl = b.impl

(* VerifyingKey::operator== and operator!=. *)
Equals(a, b) == SameClass(a, b) /\ a.material = b.material
NotEquals(a, b) == ~Equals(a, b)

(* The serialized keys the tests hand to CreateFromProto. *)
KeyBytes ==
    {SerializeToDer(KeyObject(i, r, x)) :
        i \in Impls, r \in Roles, x \in Scalars \cup Points}
    \cup {SerializeToPem(KeyObject(i, r, x)) :
        i \in Impls, r \in Roles, x \in Scalars \cup Points}
    \cup {BadKey}

KeyProtos ==
    [key_type : Roles, encoding : Encodings,
     signature_scheme : SignatureSchemes, key : KeyBytes]

(* The CreateFromProto tests of both suites. *)
CreateFromProtoTest ==
    /\ key_in.op = "none"
    /\ \E impl \in Impls, role \in Roles, proto \in KeyProtos :
         /\ key_in' = [op |-> "CreateFromProto", impl |-> impl, role |-> role,
                       proto |-> proto]
         /\ key_out' = CreateFromProto(impl, role, proto)
    /\ UNCHANGED <<vars, fork_vars, signal_vars, call_vars, transmit_vars, bridge_vars>>

(* R and S of the Signature messages of the Verify tests: of the length   *)
(* of the curve order, one shorter, one longer, or empty.                  *)
Coordinates ==
    {<<>>} \cup BitStrings(CoordinateBits - 1) \cup BitStrings(CoordinateBits)
           \cup BitStrings(CoordinateBits + 1)

(* The Verify tests with a Signature message. *)
VerifySignatureTest ==
    /\ key_in.op = "none"
    /\ \E impl \in Impls, q \in Points, m \in Messages,
          scheme \in SignatureSchemes, has \in BOOLEAN,
          r \in Coordinates, s \in Coordinates :
         /\ ~has => (r = <<>> /\ s = <<>>)
         /\ LET key == CreateFromPem(impl, "VERIFYING_KEY",
                          SerializeToPem(KeyObject(impl, "VERIFYING_KEY", q))).key
                sig == [signature_scheme |-> scheme, has_ecdsa |-> has,
                        r |-> r, s |-> s]
            IN  /\ key_in' = [op |-> "VerifySignature", key |-> key, m |-> m,
                              sig |-> sig]
                /\ key_out' = VerifyPb(key, m, sig)
    /\ UNCHANGED <<vars, fork_vars, signal_vars, call_vars, transmit_vars, bridge_vars>>

(* The sequence with the bit at position i flipped. *)
Flip(bits, i) == [bits EXCEPT ![i] = 1 - @]

(* SignAndVerify and SignAndVerifySignatureOverloads, for any bit. *)
SignAndVerifyTest ==
    /\ key_in.op = "none"
    /\ \E impl \in Impls, d \in Scalars, m \in Messages, k \in Nonces,
          i \in 1..(1 + 2 * CoordinateBits), overload \in {"bytes", "Signature"} :
         LET signing_key == KeyObject(impl, "SIGNING_KEY", d)
             verifying_key == GetVerifyingKey(signing_key)
             raw == SignRaw(signing_key, m, k)
             pb == SignPb(signing_key, m, k)
         IN  /\ overload = "Signature" => i <= 2 * CoordinateBits
             /\ key_in' = [op |-> "SignAndVerify", key |-> signing_key,
                           m |-> m, k |-> k, bit |-> i, overload |-> overload]
             /\ key_out' =
                  IF overload = "bytes"
                  THEN [code |-> VerifyRaw(verifying_key, m, raw),
                        flipped |-> VerifyRaw(verifying_key, m, Flip(raw, i))]
                  ELSE [code |-> VerifyPb(verifying_key, m, pb).code,
                        flipped |->
                          VerifyPb(verifying_key, m,
                                   IF i <= CoordinateBits
                                   THEN [pb EXCEPT !.r = Flip(@, i)]
                                   ELSE [pb EXCEPT !.s =
                                           Flip(@, i - CoordinateBits)]).code]
    /\ UNCHANGED <<vars, fork_vars, signal_vars, call_vars, transmit_vars, bridge_vars>>

(* The serialization tests: a key to DER and to PEM and back. *)
SerializeAndRestoreTest ==
    /\ key_in.op = "none"
    /\ \E impl \in Impls, role \in Roles, m \in Messages, k \in Nonces :
         \E x \in MaterialOf(role) :
           LET key == KeyObject(impl, role, x)
               from_der == CreateFromDer(impl, role, SerializeToDer(key))
               from_pem == CreateFromPem(impl, role, SerializeToPem(key))
           IN  /\ key_in' = [op |-> "SerializeAndRestore", key |-> key,
                             m |-> m, k |-> k]
               /\ key_out' =
                    [from_der |-> from_der, from_pem |-> from_pem,
                     der |-> SerializeToDer(key),
                     der_of_der |-> SerializeToDer(from_der.key),
                     der_of_pem |-> SerializeToDer(from_pem.key),
                     restored_verifies |->
                       IF role = "SIGNING_KEY" /\ from_der.code = "OK"
                       THEN VerifyRaw(GetVerifyingKey(from_der.key), m,
                                      SignRaw(key, m, k))
                       ELSE "none"]
    /\ UNCHANGED <<vars, fork_vars, signal_vars, call_vars, transmit_vars, bridge_vars>>

(* The key a test compares: made by the DER or the PEM factory of its     *)
(* class, or a FakeVerifyingKey holding the same key.                      *)
ComparedKey(impl, q, encoding) ==
    IF impl = kFake THEN KeyObject(kFake, "VERIFYING_KEY", q)
    ELSE IF encoding = "ASYMMETRIC_KEY_DER"
         THEN CreateFromDer(impl, "VERIFYING_KEY",
                  SerializeToDer(KeyObject(impl, "VERIFYING_KEY", q))).key
         ELSE CreateFromPem(impl, "VERIFYING_KEY",
                  SerializeToPem(KeyObject(impl, "VERIFYING_KEY", q))).key

(* The Equals and NotEquals tests. *)
EqualsTest ==
    /\ key_in.op = "none"
    /\ \E impl1 \in Impls, impl2 \in Impls \cup {kFake}, q1 \in Points,
          q2 \in Points,
          e1 \in {"ASYMMETRIC_KEY_DER", "ASYMMETRIC_KEY_PEM"},
          e2 \in {"ASYMMETRIC_KEY_DER", "ASYMMETRIC_KEY_PEM"} :
         LET a == ComparedKey(impl1, q1, e1)
             b == ComparedKey(impl2, q2, e2)
         IN  /\ key_in' = [op |-> "Equals", impl1 |-> impl1, impl2 |-> impl2,
                           q1 |-> q1, q2 |-> q2, e1 |-> e1, e2 |-> e2]
             /\ key_out' = [eq |-> Equals(a, b), neq |-> NotEquals(a, b)]
    /\ UNCHANGED <<vars, fork_vars, signal_vars, call_vars, transmit_vars, bridge_vars>>

(* The fixture of the next test is set up. *)
SetUp ==
    /\ key_in.op # "none"
    /\ key_in' = [op |-> "none"]
    /\ key_out' = [code |-> "none"]
    /\ UNCHANGED <<vars, fork_vars, signal_vars, call_vars, transmit_vars, bridge_vars>>

KeyInit ==
    /\ LifecycleIdle
    /\ ForkIdle
    /\ SignalIdle
    /\ CallIdle
    /\ TransmitIdle
    /\ BridgeIdle
    /\ key_in = [op |-> "none"]
    /\ key_out = [code |-> "none"]

KeyNext ==
    \/ CreateFromProtoTest
    \/ VerifySignatureTest
    \/ SignAndVerifyTest
    \/ SerializeAndRestoreTest
    \/ EqualsTest
    \/ SetUp

SpecKey == KeyInit /\ [][KeyNext]_all_vars

(* ---------------------------------------------------------------------- *)
(* Properties of the ECDSA keys (SpecKey).                                 *)

(* The key type and the scheme of the proto are those the class expects. *)
ProtoWellTyped ==
    /\ key_in.proto.key_type = key_in.role
    /\ key_in.proto.signature_scheme = SchemeOf(key_in.impl)

(* The key bytes of the proto are the PEM of a key of the class. *)
ProtoKeyIsPem ==
    \E x \in MaterialOf(key_in.role) :
        key_in.proto.key = SerializeToPem(KeyObject(key_in.impl, key_in.role, x))

(* C25: CreateFromProto answers an unknown signature scheme and a key     *)
(* type of the other role with invalid-argument, the unknown encoding     *)
(* with unimplemented, and PEM bytes declared DER with internal, and      *)
(* makes no key in any of these cases.                                     *)
C25_CreateFromProtoErrors ==
    key_in.op = "CreateFromProto" =>
        /\ key_in.proto.signature_scheme = "UNKNOWN_SIGNATURE_SCHEME" =>
               key_out.code = "INVALID_ARGUMENT"
        /\ key_in.proto.key_type # key_in.role =>
               key_out.code = "INVALID_ARGUMENT"
        /\ (ProtoWellTyped
              /\ key_in.proto.encoding = "UNKNOWN_ASYMMETRIC_KEY_ENCODING") =>
               key_out.code = "UNIMPLEMENTED"
        /\ (ProtoWellTyped /\ ProtoKeyIsPem
              /\ key_in.proto.encoding = "ASYMMETRIC_KEY_DER") =>
               key_out.code = "INTERNAL"
        /\ key_out.code # "OK" => key_out.key = NoKey

C25_Witness ==
    /\ key_in.op = "CreateFromProto"
    /\ ProtoWellTyped
    /\ ProtoKeyIsPem
    /\ key_in.proto.encoding = "ASYMMETRIC_KEY_DER"
    /\ key_out.code = "INTERNAL"
    /\ key_out.key = NoKey

(* A Signature message with one of the structural faults of the claim. *)
StructuralFault ==
    \/ key_in.sig.signature_scheme # SchemeOf(key_in.key.impl)
    \/ ~key_in.sig.has_ecdsa
    \/ key_in.sig.r = <<>>
    \/ key_in.sig.s = <<>>
    \/ Len(key_in.sig.r) < CoordinateBits
    \/ Len(key_in.sig.s) > CoordinateBits

(* C26: Verify of a Signature message answers a scheme that is not the    *)
(* key's, a missing ECDSA payload, an empty R or S, a short R and a long  *)
(* S with invalid-argument and without a cryptographic check; a           *)
(* verification failure is the answer to a structurally valid signature   *)
(* only.                                                                   *)
C26_StructuralChecksFirst ==
    key_in.op = "VerifySignature" =>
        /\ StructuralFault =>
               key_out.code = "INVALID_ARGUMENT" /\ ~key_out.checked
        /\ key_out.checked => ~StructuralFault
        /\ key_out.code = "VERIFICATION_FAILURE" => key_out.checked

C26_Witness ==
    /\ key_in.op = "VerifySignature"
    /\ key_in.sig.signature_scheme = SchemeOf(key_in.key.impl)
    /\ key_in.sig.has_ecdsa
    /\ Len(key_in.sig.r) = CoordinateBits
    /\ Len(key_in.sig.s) = CoordinateBits + 1
    /\ key_out.code = "INVALID_ARGUMENT"

C29_EqualityByClassAndMaterial ==
    key_in.op = "Equals" =>
        /\ key_out.eq <=> (key_in.impl1 = key_in.impl2 /\ key_in.q1 = key_in.q2)
        /\ key_out.neq <=> ~key_out.eq

C29_Witness ==
    /\ key_in.op = "Equals"
    /\ key_in.impl2 = kFake
    /\ key_in.q1 = key_in.q2
    /\ ~key_out.eq
    /\ key_out.neq

(* ---------------------------------------------------------------------- *)
(* Property of the driver (SpecDriver).                                    *)

(* C30: on a loaded enclave whose logic succeeds, Initialize, any number  *)
(* of Runs and Finalize each pass their state check and return OK; the    *)
(* state is Running when Initialize and when each Run returns, and        *)
(* Finalized when Finalize returns.                                        *)
C30_DriverSequenceAccepted ==
    \A t \in Threads :
        /\ pc[t] \notin {"init_unwind", "aborted", "escaped"}
        /\ (pc[t] = "done" /\ op[t] # "signal") =>
             /\ ret[t] = 0
             /\ status[t] = "OK"
             /\ user[t] = "OK"
             /\ op[t] = "init" =>
                  /\ seen[t] = kUninitialized
                  /\ post[t] = kRunning
                  /\ enclave_state = kRunning
             /\ op[t] = "run" =>
                  /\ seen[t] = kRunning
                  /\ enclave_state = kRunning
             /\ op[t] = "fini" =>
                  /\ seen[t] = kRunning
                  /\ post[t] = kFinalized
                  /\ enclave_state = kFinalized

(* Finalize has returned OK; the last write before its own was that of    *)
(* Initialize, the Runs in between having written nothing.                 *)
C30_Witness ==
    \E t \in Threads :
        /\ Returned(t, "fini")
        /\ status[t] = "OK"
        /\ seen[t] = kRunning
        /\ last_write.by = "fini"
        /\ enclave_state = kFinalized

(* ---------------------------------------------------------------------- *)
(* Further properties of the fork ocall (SpecFork).                        *)

(* C31: in every child-side path of a fork with restore_snapshot = true,   *)
(* when the child's fork ocall has returned (with success or any failure,  *)
(* a failed enclave load and a base-address mismatch included) the child   *)
(* has written exactly one result string to the pipe, and the success      *)
(* string only when the restore succeeded.                                 *)
C31_ChildReportsBeforeReturn ==
    (AfterOsFork /\ ForkReturned("child"))
        => /\ pipe_writes = 1
           /\ child_result = kChildSucceeded
                  => outcome["child"]["restore"] = "OK"

Range(f) == {f[i] : i \in DOMAIN f}

(* The order of the steps of the child of a snapshot fork. *)
ChildOrder == <<"LoadEnclave", "GetBaseAddress",
                "EnterAndTransferSecureSnapshotKey", "EnterAndRestore", "write">>

Pos(name) == CHOOSE i \in DOMAIN ChildOrder : ChildOrder[i] = name

(* DoSnapshotKeyTransfer was called in process p. *)
TransferCalled(p) == outcome[p]["peer_socket"] # "none"

(* C37: the child of a fork with restore_snapshot = true takes its steps   *)
(* in the order close pipe read end, load enclave, verify base address,    *)
(* key transfer, restore, write result; the restore is entered only after  *)
(* the key transfer returned OK, and the key transfer only after the load  *)
(* succeeded and the loaded enclave had the parent's base address.         *)
C37_ChildStepsInOrder ==
    AfterOsFork
        => /\ \A i, j \in DOMAIN steps["child"] :
                 /\ steps["child"][i] \in Range(ChildOrder)
                 /\ i < j => Pos(steps["child"][i]) < Pos(steps["child"][j])
           /\ (steps["child"] # <<>> \/ TransferCalled("child"))
                  => closes["child"]["pipefd0"] = 1
           /\ Did("child", "GetBaseAddress") => Did("child", "LoadEnclave")
           /\ TransferCalled("child")
                  => Did("child", "GetBaseAddress") /\ loaded.base
           /\ Did("child", "EnterAndTransferSecureSnapshotKey")
                  => TransferCalled("child")
           /\ Did("child", "EnterAndRestore")
                  => outcome["child"]["transfer"] = "OK"
           /\ Did("child", "write")
                  => /\ TransferCalled("child")
                     /\ outcome["child"]["transfer"] = "OK"
                            => Did("child", "EnterAndRestore")

C37_Witness ==
    /\ AfterOsFork
    /\ steps["child"] = ChildOrder
    /\ ForkReturned("child")

(* The descriptor process p gave its enclave as its own, the other one     *)
(* being closed as the peer's, is socket_pair[own].                        *)
UsesSocket(p, own) ==
    /\ outcome[p]["peer_socket"] \in {"none", OtherSocket(own)}
    /\ outcome[p]["self_socket"] \in {"none", own}

C32_RunLogicStartsOnlyWhileRunning ==
    [][\A t \in Threads : UserRun(t) => enclave_state = kRunning]_vars

(* The handler of thread t ended at once, INVALID_ARGUMENT being its       *)
(* status or the status it serialized, the state untouched.                *)
RefusesExtent(t) ==
    /\ pc'[t] = "done"
    /\ ret'[t] = kInvalidArgument \/ status'[t] = "INVALID_ARGUMENT"
    /\ enclave_state' = enclave_state

(* C33: each of the four entry handlers (Initialize, Run, Finalize,        *)
(* DeliverSignal) invokes the user entry point only if every input extent  *)
(* lies inside the trusted memory of the enclave; a call with an extent    *)
(* outside it returns INVALID_ARGUMENT at once, without invoking user      *)
(* logic and without changing the lifecycle state.                         *)
C33_UntrustedExtentRefused ==
    [][\A t \in Threads : \A inputTrusted, nameTrusted, parses \in BOOLEAN :
          /\ (/\ ~(inputTrusted /\ nameTrusted)
              /\ Initialize(t, TRUE, inputTrusted, nameTrusted, parses))
                 => RefusesExtent(t)
          /\ (~inputTrusted /\ Run(t, TRUE, inputTrusted, parses))
                 => RefusesExtent(t)
          /\ (~inputTrusted /\ Finalize(t, TRUE, inputTrusted, parses))
                 => RefusesExtent(t)
          /\ (~inputTrusted /\ DeliverSignal(t, TRUE, inputTrusted, parses))
                 => RefusesExtent(t)]_vars

(* C34 as stated: taking a snapshot never writes the lifecycle state, and  *)
(* a call returns a snapshot (TakeSnapshotForFork was called) only when    *)
(* enable_fork is set and the state it read is Running; every other call   *)
(* returns FAILED_PRECONDITION without calling TakeSnapshotForFork.  The   *)
(* error of GetEnclaveConfig, which is not in these sources, is taken for  *)
(* a FAILED_PRECONDITION.                                                  *)
C34_SnapshotOnlyWhenRunningElseFailedPrecondition ==
    /\ last_write.by # "snapshot"
    /\ \A t \in Threads :
          Returned(t, "snapshot")
              => IF user[t] # "none"
                   THEN seen[t] = kRunning
                   ELSE /\ ret[t] = 0
                        /\ status[t] \in {"FAILED_PRECONDITION", "CONFIG_UNSET"}

(* What holds of the snapshot calls in every state a step leads to. *)
SnapshotReturns ==
    /\ last_write.by # "snapshot"
    /\ \A t \in Threads :
          /\ (op[t] = "snapshot" /\ (pc[t] = "snapshot_take" \/ user[t] # "none"))
                 => seen[t] = kRunning
          /\ (Returned(t, "snapshot") /\ user[t] = "none")
                 => \/ ret[t] = 1 /\ status[t] = "none" /\ seen[t] = NoState
                    \/ /\ ret[t] = 0
                       /\ status[t] \in {"FAILED_PRECONDITION", "CONFIG_UNSET"}
                       /\ status[t] = "CONFIG_UNSET" => seen[t] = NoState
                       /\ seen[t] # kRunning

(* C34, amended: taking a snapshot never writes the lifecycle state;       *)
(* TakeSnapshotForFork is called only by a call whose output arguments     *)
(* are valid, that found enable_fork set and that read the state Running.  *)
(* A call with invalid output arguments returns 1 and no status; a call    *)
(* made before any config was set returns the error of GetEnclaveConfig;   *)
(* a call that finds enable_fork off or a state other than Running         *)
(* returns FAILED_PRECONDITION.                                            *)
C34_SnapshotOnlyWhenRunning ==
    [][/\ SnapshotReturns'
       /\ \A t \in Threads :
             /\ (pc[t] = "idle" /\ pc'[t] = "snapshot_state")
                    => enable_fork = "on"
             /\ (pc[t] = "idle" /\ Returned(t, "snapshot")' /\ ret'[t] = 0)
                    => enable_fork # "on"
             /\ (pc[t] = "snapshot_take" /\ pc'[t] # pc[t])
                    => seen[t] = kRunning /\ enclave_state' = enclave_state]_vars

C34_Witness ==
    \E t, u \in Threads :
        /\ Returned(t, "snapshot") /\ user[t] = "OK" /\ status[t] = "OK"
        /\ Returned(u, "snapshot") /\ status[u] = "FAILED_PRECONDITION"
        /\ enclave_state = kRunning

(* The positions of an Initialize that VerifyAndSetState has admitted. *)
InitAdmittedSites == {"init_internal", "internal_vass", "init_user",
                      "init_set_running", "init_unwind"}

InitAdmitted(t) == op[t] = "init" /\ pc[t] \in InitAdmittedSites

(* C38: of the threads that call Initialize concurrently on an             *)
(* Uninitialized enclave at most one is admitted by the state check and    *)
(* runs the internal and user initialization logic; every other caller     *)
(* gets FAILED_PRECONDITION and writes no state, and the state is reset    *)
(* to Uninitialized only by the admitted caller, from a state of its own   *)
(* initialization.                                                         *)
C38_OneInitializeAdmitted ==
    /\ Cardinality({t \in Threads : InitAdmitted(t)}) <= 1
    /\ \A t \in Threads :
          /\ InitAdmitted(t)
                => /\ seen[t] = kUninitialized
                   /\ enclave_state \in {kInternalInitializing, kUserInitializing}
          /\ (op[t] = "init" /\ pc[t] = "init_vass" /\ lk[t] = "out"
                /\ \E u \in Threads : InitAdmitted(u))
                => enclave_state # kUninitialized
          /\ (Returned(t, "init") /\ seen[t] \notin {NoState, kUninitialized})
                => /\ status[t] = "FAILED_PRECONDITION"
                   /\ user[t] = "none"
                   /\ post[t] = seen[t]
    /\ (last_write.by = "init" /\ last_write.to = kUninitialized)
          => /\ last_write.at = "init_unwind"
             /\ last_write.from \in {kInternalInitializing, kUserInitializing}

C38_Witness ==
    \E t, u \in Threads :
        /\ InitAdmitted(t) /\ pc[t] = "init_user"
        /\ Returned(u, "init") /\ status[u] = "FAILED_PRECONDITION"
        /\ seen[u] \in {kInternalInitializing, kUserInitializing}

(* ---------------------------------------------------------------------- *)
(* Further properties of the host signal handlers (SpecSignal).            *)

(* The last step was a call of the registration ocall with a signal        *)
(* number the host knows.                                                  *)
Registering ==
    last_reg.name # "none" /\ FromBridgeSignal(last_reg.bridge_signum) >= 0

(* C36: register_signal_handler completes for every handler descriptor:    *)
(* with a null descriptor or one without a sigaction function (hardware    *)
(* mode) it installs the function that enters the enclave, with a          *)
(* descriptor that carries a sigaction function (simulation mode) it       *)
(* records that function and installs the function that checks the TCS;    *)
(* SA_SIGINFO is set and the result of the host's sigaction is returned.   *)
C36_RegistrationCompletes ==
    Registering
        => LET signum == FromBridgeSignal(last_reg.bridge_signum) IN
           /\ last_reg.completed
           /\ last_reg.sa_siginfo
           /\ last_reg.result = 0
                 => sa_sigaction[signum] =
                       IF last_reg.kind = "simulation"
                       THEN "HandleSignalInSim"
                       ELSE "EnterEnclaveAndHandleSignal"
           /\ last_reg.kind = "simulation"
                 => handle_signal_inside_enclave = last_reg.name

(* ---------------------------------------------------------------------- *)
(* SocketTransmit of asylo/platform/posix/sockets/socket_transmit.cc.      *)
(* A step is one evaluation of the loop condition of Read or Write with    *)
(* the body it guards, the call of read(2) or write(2) included, or the    *)
(* code after the loop.  What the host answers to a call is an input.      *)

MaxLen == 2         \* the largest read_len and write_len
MaxSysCalls == 3    \* the most calls of read(2) or write(2) by one call
MaxCount == 3       \* no call starts with this many transfers counted

(* The errno values the switch tells apart, and two of the others. *)
RetriedErrnos == {"EINTR", "EAGAIN"}
OtherErrnos == {"EBADF", "ECONNRESET"}

(* SocketTransmit::SocketTransmit() and the errno of a fresh thread. *)
TransmitStart ==
    [op |-> "none", pc |-> "idle", len |-> 0, bytes |-> 0, nbytes |-> 0,
     errno |-> "0", status |-> "none", calls |-> 0,
     read_count_ |-> 0, write_count_ |-> 0]

(* Entry of Read or Write: the two locals are zero. *)
Enter(name, len) ==
    /\ tx.pc \in {"idle", "returned"}
    /\ tx.read_count_ + tx.write_count_ < MaxCount
    /\ tx' = [tx EXCEPT !.op = name, !.pc = "loop", !.len = len,
                        !.bytes = 0, !.nbytes = 0, !.status = "none",
                        !.calls = 0]

(* What read(2) or write(2) of at most `want` bytes can answer: a count    *)
(* of bytes, or -1 with errno set.  A count leaves errno alone.            *)
Answers(want) ==
    [nbytes : 0..want, errno : {tx.errno}]
        \cup [nbytes : {-1}, errno : RetriedErrnos \cup OtherErrnos]

(* break in the default case leaves the switch. *)
DefaultCaseLeaves == "switch"

(* Where control is after the switch on errno: continue goes to the loop   *)
(* condition; the break of the default case leaves the switch, the if      *)
(* statement ends, and the loop condition is next as well.                 *)
AfterSwitch(e) ==
    IF e \in RetriedErrnos THEN "loop"
    ELSE IF DefaultCaseLeaves = "switch" THEN "loop" ELSE "after_loop"

(* while (read_bytes < read_len) { nbytes = read(...); ... } *)
ReadLoop ==
    /\ tx.op = "Read" /\ tx.pc = "loop"
    /\ IF tx.bytes < tx.len
       THEN /\ tx.calls < MaxSysCalls
            /\ \E a \in Answers(tx.len - tx.bytes) :
                 tx' = IF a.nbytes < 0
                       THEN [tx EXCEPT !.nbytes = a.nbytes, !.errno = a.errno,
                                       !.calls = @ + 1,
                                       !.pc = AfterSwitch(a.errno)]
                       ELSE IF a.nbytes = 0
                       THEN [tx EXCEPT !.nbytes = 0, !.calls = @ + 1,
                                       !.pc = "returned", !.status = "EPIPE"]
                       ELSE [tx EXCEPT !.nbytes = a.nbytes, !.calls = @ + 1,
                                       !.bytes = @ + a.nbytes,
                                       !.read_count_ = @ + 1]
       ELSE tx' = [tx EXCEPT !.pc = "after_loop"]
    /\ UNCHANGED <<vars, fork_vars, signal_vars, call_vars, key_vars, bridge_vars>>

(* while (write_bytes < write_len) { nbytes = write(...); ... } *)
WriteLoop ==
    /\ tx.op = "Write" /\ tx.pc = "loop"
    /\ IF tx.bytes < tx.len
       THEN /\ tx.calls < MaxSysCalls
            /\ \E a \in Answers(tx.len - tx.bytes) :
                 tx' = IF a.nbytes < 0
                       THEN [tx EXCEPT !.nbytes = a.nbytes, !.errno = a.errno,
                                       !.calls = @ + 1,
                                       !.pc = AfterSwitch(a.errno)]
                       ELSE [tx EXCEPT !.nbytes = a.nbytes, !.calls = @ + 1,
                                       !.bytes = @ + a.nbytes,
                                       !.write_count_ = @ + 1]
       ELSE tx' = [tx EXCEPT !.pc = "after_loop"]
    /\ UNCHANGED <<vars, fork_vars, signal_vars, call_vars, key_vars, bridge_vars>>

(* if (read_bytes < read_len) return Status(errno, ...); return OK; and    *)
(* the same of Write.                                                      *)
AfterLoop ==
    /\ tx.pc = "after_loop"
    /\ tx' = [tx EXCEPT !.pc = "returned",
                        !.status = IF tx.bytes < tx.len THEN tx.errno ELSE "OK"]
    /\ UNCHANGED <<vars, fork_vars, signal_vars, call_vars, key_vars, bridge_vars>>

ReadCall ==
    /\ \E read_len \in 0..MaxLen : Enter("Read", read_len)
    /\ UNCHANGED <<vars, fork_vars, signal_vars, call_vars, key_vars, bridge_vars>>

WriteCall ==
    /\ \E write_len \in 0..MaxLen : Enter("Write", write_len)
    /\ UNCHANGED <<vars, fork_vars, signal_vars, call_vars, key_vars, bridge_vars>>

(* SocketTransmit::reset(), between calls. *)
reset ==
    /\ tx.pc = "returned"
    /\ tx.read_count_ + tx.write_count_ > 0
    /\ tx' = [tx EXCEPT !.read_count_ = 0, !.write_count_ = 0]
    /\ UNCHANGED <<vars, fork_vars, signal_vars, call_vars, key_vars, bridge_vars>>

TransmitInit ==
    /\ LifecycleIdle /\ ForkIdle /\ SignalIdle /\ CallIdle /\ KeyIdle
    /\ BridgeIdle
    /\ tx = TransmitStart

TransmitNext ==
    \/ ReadCall
    \/ WriteCall
    \/ ReadLoop
    \/ WriteLoop
    \/ AfterLoop
    \/ reset

SpecTransmit == TransmitInit /\ [][TransmitNext]_all_vars

(* The last step of the call in progress called read(2) or write(2), and   *)
(* the call failed with this errno.                                        *)
LastCallFailedWith(errnos) ==
    tx.calls > 0 /\ tx.nbytes < 0 /\ tx.errno \in errnos

(* C39: Read and Write retry only EINTR and EAGAIN; a call of read(2) or   *)
(* write(2) that fails with another errno ends the loop and the function   *)
(* returns that errno as its status; Read returns EPIPE as soon as read(2) *)
(* returns 0; OK is returned only after exactly the requested number of    *)
(* bytes.                                                                  *)
C39_OtherErrnoEndsTheLoop ==
    /\ LastCallFailedWith(OtherErrnos)
          => tx.pc \in {"after_loop", "returned"}
    /\ (tx.pc = "returned" /\ LastCallFailedWith(OtherErrnos))
          => tx.status = tx.errno
    /\ (LastCallFailedWith(RetriedErrnos) /\ tx.calls < MaxSysCalls)
          => tx.pc = "loop"
    /\ (tx.op = "Read" /\ tx.calls > 0 /\ tx.nbytes = 0)
          => tx.pc = "returned" /\ tx.status = "EPIPE"
    /\ (tx.pc = "returned" /\ tx.status = "OK") => tx.bytes = tx.len

(* What does hold of them: a failed call of either kind is followed by the *)
(* loop condition, so the code after the loop is reached only with all     *)
(* bytes transferred and its error return is never taken.                  *)
TransmitReturnsOnlyOkOrEpipe ==
    /\ LastCallFailedWith(RetriedErrnos \cup OtherErrnos) => tx.pc = "loop"
    /\ tx.pc \in {"after_loop", "returned"} /\ tx.status # "EPIPE"
          => tx.bytes = tx.len
    /\ tx.pc = "returned" => tx.status \in {"OK", "EPIPE"}

(* ---------------------------------------------------------------------- *)
(* The translation functions that                                          *)
(* asylo/platform/common/bridge_functions_test.cc tests.  The bridge       *)
(* constants are those of bridge_types.h, the host constants those of      *)
(* <syslog.h> and <sys/wait.h> on Linux; an int is its value, its bits     *)
(* are computed.                                                           *)

SpareBits == 1      \* bits above the defined ones in an argument drawn

RECURSIVE BitOr(_, _)
BitOr(a, b) ==
    IF a = 0 THEN b
    ELSE IF b = 0 THEN a
    ELSE (IF a % 2 = 1 \/ b % 2 = 1 THEN 1 ELSE 0) + 2 * BitOr(a \div 2, b \div 2)

RECURSIVE BitAnd(_, _)
BitAnd(a, b) ==
    IF a = 0 \/ b = 0 THEN 0
    ELSE (IF a % 2 = 1 /\ b % 2 = 1 THEN 1 ELSE 0) + 2 * BitAnd(a \div 2, b \div 2)

(* BRIDGE_LOG_USER = 1 << 3, BRIDGE_LOG_LOCAL0 = 16 << 3 to                *)
(* BRIDGE_LOG_LOCAL7 = 23 << 3, and no facility; LOG_USER to LOG_LOCAL7.   *)
BridgeSysLogFacilities == <<8, 128, 136, 144, 152, 160, 168, 176, 184, 0>>
HostSysLogFacilities == <<8, 128, 136, 144, 152, 160, 168, 176, 184, 0>>

(* BRIDGE_LOG_EMERG to BRIDGE_LOG_DEBUG; LOG_EMERG to LOG_DEBUG. *)
BridgeSysLogLevels == <<0, 1, 2, 3, 4, 5, 6, 7>>
HostSysLogLevels == <<0, 1, 2, 3, 4, 5, 6, 7>>

(* BRIDGE_LOG_PID, _CONS, _ODELAY, _NDELAY, _NOWAIT, _PERROR; LOG_PID to   *)
(* LOG_PERROR.                                                             *)
BridgeSysLogOptions == <<1, 2, 4, 8, 16, 32>>
HostSysLogOptions == <<1, 2, 4, 8, 16, 32>>

(* BRIDGE_WNOHANG; WNOHANG. *)
BridgeWaitOptions == <<1>>
HostWaitOptions == <<1>>

(* A chain of  if (v == from[i]) return to[i];  closed by a fallback. *)
RECURSIVE TranslateValue(_, _, _, _)
TranslateValue(from, to, fallback, v) ==
    IF from = << >> THEN fallback
    ELSE IF v = Head(from) THEN Head(to)
    ELSE TranslateValue(Tail(from), Tail(to), fallback, v)

(* A sequence of  if (v & from[i]) result |= to[i];  from result = 0. *)
RECURSIVE TranslateBits(_, _, _)
TranslateBits(from, to, v) ==
    IF from = << >> THEN 0
    ELSE BitOr(IF BitAnd(v, Head(from)) # 0 THEN Head(to) ELSE 0,
               TranslateBits(Tail(from), Tail(to), v))

FromBridgeWaitOptions(v) == TranslateBits(BridgeWaitOptions, HostWaitOptions, v)
ToBridgeWaitOptions(v) == TranslateBits(HostWaitOptions, BridgeWaitOptions, v)

FromBridgeSysLogOption(v) == TranslateBits(BridgeSysLogOptions, HostSysLogOptions, v)
ToBridgeSysLogOption(v) == TranslateBits(HostSysLogOptions, BridgeSysLogOptions, v)

FromBridgeSysLogLevel(v) == TranslateValue(BridgeSysLogLevels, HostSysLogLevels, 0, v)
ToBridgeSysLogLevel(v) == TranslateValue(HostSysLogLevels, BridgeSysLogLevels, 0, v)

FromBridgeSysLogFacility(v) ==
    TranslateValue(BridgeSysLogFacilities, HostSysLogFacilities, 0, v)
ToBridgeSysLogFacility(v) ==
    TranslateValue(HostSysLogFacilities, BridgeSysLogFacilities, 0, v)

(* The level is the low three bits of a priority, the facility the rest.   *)
LevelOf(priority) == BitAnd(priority, 7)
FacilityOf(priority) == priority - BitAnd(priority, 7)

FromBridgeSysLogPriority(v) ==
    BitOr(FromBridgeSysLogLevel(LevelOf(v)), FromBridgeSysLogFacility(FacilityOf(v)))

ToBridgeSysLogPriorityOfLevel(v) == ToBridgeSysLogLevel(LevelOf(v))

ToBridgeSysLogPriority(v) ==
    BitOr(ToBridgeSysLogLevel(LevelOf(v)), ToBridgeSysLogFacility(FacilityOf(v)))

(* The arguments a fuzzed test of a bitset translation draws: every        *)
(* combination of the defined bits and of SpareBits bits above them.       *)
BitsetArguments(bits) == 0..(2^(Len(bits) + SpareBits) - 1)

NoTest == [test |-> "none"]

(* A test of a translation of bitsets in the two directions, on one        *)
(* argument drawn.                                                         *)
BitsetTest(name, bridge_bits, host_bits, v) ==
    /\ bridge.test = "none"
    /\ bridge' = [test |-> name, arg |-> v,
                  from_bits |-> bridge_bits, to_bits |-> host_bits,
                  from_result |-> TranslateBits(bridge_bits, host_bits, v),
                  to_result |-> TranslateBits(host_bits, bridge_bits, v)]

BridgeWaitOptionsTest ==
    /\ \E v \in BitsetArguments(BridgeWaitOptions) :
         /\ BitsetTest("BridgeWaitOptionsTest", BridgeWaitOptions, HostWaitOptions, v)
         /\ bridge'.from_result = FromBridgeWaitOptions(v)
         /\ bridge'.to_result = ToBridgeWaitOptions(v)
    /\ UNCHANGED <<vars, fork_vars, signal_vars, call_vars, key_vars, transmit_vars>>

BridgeSysLogOptionTest ==
    /\ \E v \in BitsetArguments(BridgeSysLogOptions) :
         /\ BitsetTest("BridgeSysLogOptionTest", BridgeSysLogOptions,
                       HostSysLogOptions, v)
         /\ bridge'.from_result = FromBridgeSysLogOption(v)
         /\ bridge'.to_result = ToBridgeSysLogOption(v)
    /\ UNCHANGED <<vars, fork_vars, signal_vars, call_vars, key_vars, transmit_vars>>

(* One pass of the inner loop: from and to are formed, and translated. *)
BridgeSysLogPriorityTest ==
    /\ bridge.test = "none"
    /\ \E i \in 1..Len(BridgeSysLogFacilities), j \in 1..Len(BridgeSysLogLevels) :
         LET from == BitOr(BridgeSysLogFacilities[i], BridgeSysLogLevels[j])
             to == BitOr(HostSysLogFacilities[i], HostSysLogLevels[j])
         IN  bridge' = [test |-> "BridgeSysLogPriorityTest", i |-> i, j |-> j,
                        from |-> from, to |-> to,
                        from_result |-> FromBridgeSysLogPriority(from),
                        to_result |-> ToBridgeSysLogPriority(to),
                        back |-> ToBridgeSysLogPriority(FromBridgeSysLogPriority(from))]
    /\ UNCHANGED <<vars, fork_vars, signal_vars, call_vars, key_vars, transmit_vars>>

(* The next test, or the next pass, starts. *)
NextBridgeTest ==
    /\ bridge.test # "none"
    /\ bridge' = NoTest
    /\ UNCHANGED <<vars, fork_vars, signal_vars, call_vars, key_vars, transmit_vars>>

BridgeInit ==
    /\ LifecycleIdle /\ ForkIdle /\ SignalIdle /\ CallIdle /\ KeyIdle
    /\ TransmitIdle
    /\ bridge = NoTest

BridgeNext ==
    \/ BridgeWaitOptionsTest
    \/ BridgeSysLogOptionTest
    \/ BridgeSysLogPriorityTest
    \/ NextBridgeTest

SpecBridge == BridgeInit /\ [][BridgeNext]_all_vars

(* The bits of v, as the set of their values. *)
BitsOf(v) == {2^k : k \in {k \in 0..(8 + SpareBits) : BitAnd(v, 2^k) # 0}}

(* `result` is `v` with each bit of `from` carried to the bit of `to` at   *)
(* the same place, and with nothing else.                                  *)
TranslatedBitwise(from, to, v, result) ==
    BitsOf(result) = {to[i] : i \in {i \in DOMAIN from : from[i] \in BitsOf(v)}}

UndefinedBitDropped ==
    /\ bridge.test = "BridgeSysLogOptionTest"
    /\ bridge.arg = 64 + 32 + 2
    /\ bridge.from_result = 34

====
